---- MODULE Spec2Model ----
(***************************************************************************)
(* Verification model of the voice assistant (chrbier/voice-assistant).     *)
(*                                                                          *)
(* One module, one state; each component has its own next-state relation    *)
(* and specification over the shared variables:                             *)
(*   SpecPlayer     src/audio/player.py    AudioPlayer  (playback buffer)   *)
(***************************************************************************)
EXTENDS Integers, Sequences, FiniteSets, TLC

VARIABLES
    \* ---- AudioPlayer (src/src/audio/player.py) ----
    samples,            \* _samples: the sample buffer, as runs of sample ids
    read_index,         \* _read_index
    playback_started,   \* _playback_started
    is_playing,         \* _is_playing
    pcControl,          \* position of the event-loop thread inside a player call
    pendingChunk,       \* new_samples of a queue_audio call waiting for the lock
    pcPlayback,         \* position of the playback thread (_playback_loop)
    lastChunk,          \* value returned by the latest _get_samples call
    appended,           \* samples appended since the last start_playback() (= next sample id)
    expectedNext,       \* id of the oldest sample appended since the last reset and not yet returned
    lastExpected,       \* expectedNext at the moment of the latest _get_samples call
    sessionEmitted,     \* samples returned since the last start_playback()
    prebuffered,        \* the unread length has reached the threshold since the last start_playback()
    sessions,           \* number of start_playback() calls so far
    lastQueueCall,      \* the latest queue_audio call since the last start_playback(): made while "playing" or "stopped"
    underrun,           \* _get_samples has found the buffer drained, playback started, since the last start_playback()
    \* ---- AudioHandler (src/src/audio/handler.py) ----
    use_sounddevice,    \* _use_sounddevice: sounddevice callback path, else PyAudio thread path
    audio_queue,        \* _audio_queue: None, or the queued frames (runs of frame ids)
    is_recording,       \* _is_recording
    is_muted,           \* _is_muted
    stream,             \* _stream: None or "open" (the sounddevice InputStream)
    queue_full_count,   \* _queue_full_count
    pcPyaudio,          \* position of the PyAudio capture thread (pyaudio_thread)
    pcStream,           \* position of the consumer inside get_audio_stream()
    framesCaptured,     \* frames delivered by the device since start_streaming() (= next frame id)
    delivered,          \* number of chunks get_audio_stream() has yielded since start_streaming()
    lastFrame,          \* what happened to the latest captured frame
    streamSessions,     \* number of start_streaming() calls so far
    muteCalls,          \* number of mute()/unmute() calls so far
    lastMuteCall,       \* the latest mute()/unmute() call, and whether the call before it was the same
    \* ---- GeminiLiveClient (src/src/gemini/client.py) ----
    ws,                 \* _ws: the id of the connection it holds, 0 for None
    is_connected,       \* _is_connected
    is_streaming,       \* _is_streaming
    tools,              \* _tools: the registered definitions (their names), in order
    tool_handlers,      \* _tool_handlers: the names that have a handler
    openConns,          \* the connections that are open (opened, and closed by neither side)
    connCount,          \* number of connections opened so far (= last connection id)
    pcDisconnect,       \* position inside disconnect()
    pcRecv,             \* position of the receive loop (receive_responses)
    curCalls,           \* functionCalls of the tool-call event being handled
    callIdx,            \* index in curCalls of the call being handled
    pending,            \* the handler's outcome for the current call, awaiting its response
    outbox,             \* the tool responses sent to the backend, in order
    callLog,            \* the function calls received, with what their handler did
    callCount,          \* number of function calls received so far (= last call id)
    \* ---- VoiceAssistant (src/src/assistant.py) ----
    pcMain,             \* position of the main task (run, _wakeword_loop, _start_conversation, ...)
    is_running,         \* _is_running
    is_in_conversation, \* _is_in_conversation
    end_conversation_requested, \* _end_conversation_requested
    elapsed,            \* seconds since _last_activity_time
    task,               \* state of send_task, session_task and timeout_task of the conversation
    pcWatchdog,         \* position of _conversation_timeout_loop
    sleepLeft,          \* seconds left of the watchdog's asyncio.sleep
    pendingTasks,       \* the tasks _conversation_loop still has to cancel and await
    teardownLog,        \* the teardown steps done since the conversation started
    conversations,      \* number of conversation attempts so far
    audioEvents,        \* number of audio events received in the conversation
    toolResult,         \* what end_conversation returned in this conversation
    detections,         \* number of frames of the wakeword loop for which process_frame returned True
    wwStream,           \* the input stream of the wakeword loop: "None" or "open"
    pcStop,             \* position of each stop() call: the signal handler's and the one of main()'s finally
    stopAt,             \* where the main task was when the signal handler called stop()
    \* ---- WakewordDetector (src/src/wakeword/detector.py) ----
    porcupine,          \* _porcupine: the id of the engine it holds, 0 for None
    detector_running,   \* _is_running of the detector
    on_wakeword,        \* a callback was given to the constructor
    enginesCreated,     \* number of engines created so far (= last engine id)
    deletedLog,         \* the engines on which delete() was called, in order
    cleanupCalls,       \* number of cleanup() calls so far
    lastProcess,        \* the latest process_frame call: its frame, what it did and returned
    usedAfterDelete,    \* process() was called on an engine after its delete()
    \* ---- calls made to the GeminiLiveClient by its user ----
    session,            \* lastClientCall, audioSent and setupSent (see below); empty before the first call
    \* ---- one function call of the client, from handler to response ----
    roundTrip,          \* rtHandler, rtCall, rtResult and rtSent (see below); empty before the first step
    \* ---- VoiceAssistant.initialize (src/src/assistant.py) ----
    initialization,     \* pcInit, toolsDone, toolState and initOutcome (see below)
    \* ---- TimerTool (src/src/tools/timer.py) ----
    timerTool,          \* now, _timers, the countdown threads and the calls (see below)
    \* ---- VoiceAssistant._send_audio_loop (src/src/assistant.py) ----
    sentChunks,         \* the latest chunk passed to send_audio: stream session and frame id (empty: none yet)
    \* ---- MusicTool (src/src/tools/music.py) ----
    musicTool           \* the playlist, the player processes, the threads and the calls (see below)

playerVars == <<samples, read_index, playback_started, is_playing, pcControl,
                pendingChunk, pcPlayback, lastChunk, appended, expectedNext,
                lastExpected, sessionEmitted, prebuffered, sessions, lastQueueCall,
                underrun>>

handlerVars == <<use_sounddevice, audio_queue, is_recording, is_muted, stream,
                 queue_full_count, pcPyaudio, pcStream, framesCaptured, delivered,
                 lastFrame, streamSessions, muteCalls, lastMuteCall>>

clientVars == <<ws, is_connected, is_streaming, tools, tool_handlers, openConns,
                connCount, pcDisconnect, pcRecv, curCalls, callIdx, pending, outbox,
                callLog, callCount>>

assistantVars == <<pcMain, is_running, is_in_conversation, end_conversation_requested,
                   elapsed, task, pcWatchdog, sleepLeft, pendingTasks, teardownLog,
                   conversations, audioEvents, toolResult, detections, wwStream,
                   pcStop, stopAt>>

stopVars == <<detections, wwStream, pcStop, stopAt>>

detectorVars == <<porcupine, detector_running, on_wakeword, enginesCreated,
                  deletedLog, cleanupCalls, lastProcess, usedAfterDelete>>

sessionVars == <<session>>

\* the variables of the components that take no part in a conversation
roundTripVars == <<roundTrip>>
initializeVars == <<initialization>>
timerVars == <<timerTool>>
sendLoopVars == <<sentChunks>>
musicVars == <<musicTool>>
auxVars == <<sessionVars, roundTripVars, initializeVars, timerVars, sendLoopVars, musicVars>>

notPlayerVars == <<handlerVars, clientVars, assistantVars, detectorVars, auxVars>>
notHandlerVars == <<playerVars, clientVars, assistantVars, detectorVars, auxVars>>
notClientVars == <<playerVars, handlerVars, assistantVars, detectorVars, auxVars>>
notDetectorVars == <<playerVars, handlerVars, clientVars, assistantVars, auxVars>>
compVars == <<playerVars, handlerVars, clientVars, assistantVars, detectorVars>>
notSessionVars == <<playerVars, handlerVars, assistantVars, detectorVars, roundTripVars,
                    initializeVars, timerVars, sendLoopVars, musicVars>>
notRoundTripVars == <<compVars, sessionVars, initializeVars, timerVars, sendLoopVars,
                      musicVars>>
notInitializeVars == <<compVars, sessionVars, roundTripVars, timerVars, sendLoopVars,
                       musicVars>>
notTimerVars == <<compVars, sessionVars, roundTripVars, initializeVars, sendLoopVars,
                  musicVars>>
notMusicVars == <<compVars, sessionVars, roundTripVars, initializeVars, timerVars,
                  sendLoopVars>>

vars == <<playerVars, handlerVars, clientVars, assistantVars, detectorVars, auxVars>>

\* Python's None where an array or a queue is expected: a value distinct from
\* every encoded sequence (no run of a sequence is empty)
None == <<[first |-> -1, n |-> 0]>>

Min(a, b) == IF a <= b THEN a ELSE b
Max(a, b) == IF a >= b THEN a ELSE b

(***************************************************************************)
(* Sample arrays.  A numpy int16 array is modelled as the sequence of the   *)
(* ids of its samples (samples are numbered in the order queue_audio        *)
(* appends them), stored run-length encoded: a sequence of runs             *)
(* [first, n] standing for the ids first, first+1, ..., first+n-1.  The     *)
(* encoding is canonical (no empty run, adjacent runs merged), so equal     *)
(* arrays are equal values.                                                 *)
(***************************************************************************)
Run(first, n) == IF n <= 0 THEN <<>> ELSE <<[first |-> first, n |-> n]>>

RECURSIVE SamplesLen(_)
SamplesLen(buf) == IF buf = <<>> THEN 0 ELSE Head(buf).n + SamplesLen(Tail(buf))

\* np.concatenate([a, b])
Concatenate(a, b) ==
    IF a = <<>> THEN b
    ELSE IF b = <<>> THEN a
    ELSE LET la == a[Len(a)]
             hb == Head(b)
         IN  IF la.first + la.n = hb.first
             THEN SubSeq(a, 1, Len(a) - 1)
                    \o <<[first |-> la.first, n |-> la.n + hb.n]>>
                    \o Tail(b)
             ELSE a \o b

\* arr[k:] for k >= 0
RECURSIVE DropSamples(_, _)
DropSamples(buf, k) ==
    IF k <= 0 \/ buf = <<>> THEN buf
    ELSE IF Head(buf).n <= k THEN DropSamples(Tail(buf), k - Head(buf).n)
    ELSE <<[first |-> Head(buf).first + k, n |-> Head(buf).n - k]>> \o Tail(buf)

\* arr[:k] for k >= 0
RECURSIVE TakeSamples(_, _)
TakeSamples(buf, k) ==
    IF k <= 0 \/ buf = <<>> THEN <<>>
    ELSE IF Head(buf).n <= k
         THEN Concatenate(<<Head(buf)>>, TakeSamples(Tail(buf), k - Head(buf).n))
    ELSE <<[first |-> Head(buf).first, n |-> k]>>

\* arr[from:to] for 0 <= from, 0 <= to (Python clamps both to the length)
Slice(buf, from, to) == TakeSamples(DropSamples(buf, from), to - from)

(***************************************************************************)
(* AudioPlayer constants                                                    *)
(***************************************************************************)
PrebufferSamples == 2400
ChunkSamples == 1200
CompactThreshold == 48000

\* Bounds of the model
MaxSessions == 2
MaxAppended == 51000
ChunkSizes == {2000, 25000}

(***************************************************************************)
(* AudioPlayer._get_samples(count), the part under _buffer_lock, as a       *)
(* function of the fields it reads.  ret = None stands for "return None".   *)
(***************************************************************************)
\* mutant: the buffer is never compacted
M_NeverCompacts(ri) == FALSE

\* if self._read_index > 48000 (line 267)
NeedsCompaction(ri) == ri > CompactThreshold

\* mutant: compaction resets the cursor but keeps the consumed prefix
M_CompactKeepsPrefix(buf, ri) ==
    IF ri > CompactThreshold
    THEN [samples |-> buf, read_index |-> 0]
    ELSE [samples |-> buf, read_index |-> ri]

Compact(buf, ri) ==
    IF NeedsCompaction(ri)
    THEN [samples |-> DropSamples(buf, ri), read_index |-> 0]
    ELSE [samples |-> buf, read_index |-> ri]

\* mutant: playback starts as soon as anything is buffered
M_PrebufferOpenAny(started, available) ==
    started \/ available > 0

PrebufferOpen(started, available) ==
    started \/ available >= PrebufferSamples

\* mutant: an underrun arms the pre-buffering again
M_RearmOnUnderrun(started, available) == available > 0

\* _playback_started once the pre-buffer check has passed: set when the
\* threshold is reached, and left as it is afterwards
StartedAfterCheck(started, available) == TRUE

\* mutant: the end of the chunk is not clamped to the length of the buffer
M_ReadEndUnclamped(ri, count, len) == ri + count

\* end = min(self._read_index + count, len(self._samples)) (line 262)
ReadEnd(ri, count, len) == Min(ri + count, len)

GetSamples(buf, ri, started, count) ==
    LET available == SamplesLen(buf) - ri
        end == ReadEnd(ri, count, SamplesLen(buf))
        c == Compact(buf, end)
    IN  IF ~PrebufferOpen(started, available)
        THEN [ret |-> None, samples |-> buf, read_index |-> ri, started |-> started]
        ELSE IF available <= 0
        THEN [ret |-> None, samples |-> buf, read_index |-> ri,
              started |-> StartedAfterCheck(started, available)]
        ELSE [ret |-> Slice(buf, ri, end), samples |-> c.samples,
              read_index |-> c.read_index,
              started |-> StartedAfterCheck(started, available)]

Available == SamplesLen(samples) - read_index

\* bookkeeping of the observation variables, common to every player step
Observe ==
    /\ prebuffered' = ( \/ (sessions' = sessions /\ prebuffered)
                        \/ SamplesLen(samples') - read_index' >= PrebufferSamples )
    /\ underrun' = ( \/ (sessions' = sessions /\ underrun)
                     \/ ( /\ pcPlayback = "get" /\ pcPlayback' = "loop"
                          /\ playback_started
                          /\ SamplesLen(samples) - read_index <= 0 ) )

(***************************************************************************)
(* start_playback(): called from the event loop (start_playback_stream)     *)
(***************************************************************************)
\* with self._buffer_lock: reset buffer and cursor
StartPlaybackResetStep ==
    /\ pcControl = "idle"
    /\ samples' = <<>>
    /\ read_index' = 0
    /\ appended' = 0
    /\ expectedNext' = 0
    /\ sessionEmitted' = 0
    /\ sessions' = sessions + 1
    /\ lastQueueCall' = "none"
    /\ pcControl' = "start_flags"
    /\ UNCHANGED <<playback_started, is_playing, pendingChunk, pcPlayback,
                   lastChunk, lastExpected>>
    /\ Observe

StartPlaybackReset ==
    /\ ~is_playing
    /\ sessions < MaxSessions
    /\ StartPlaybackResetStep
    /\ UNCHANGED notPlayerVars

StartedAfterStart(started) == FALSE

\* _playback_started = False; _is_playing = True; thread start
StartPlaybackRunStep ==
    /\ pcControl = "start_flags"
    /\ playback_started' = StartedAfterStart(playback_started)
    /\ is_playing' = TRUE
    /\ pcPlayback' = "loop"
    /\ pcControl' = "idle"
    /\ UNCHANGED <<samples, read_index, pendingChunk, lastChunk, appended,
                   expectedNext, lastExpected, sessionEmitted, sessions, lastQueueCall>>
    /\ Observe

StartPlaybackRun ==
    /\ StartPlaybackRunStep
    /\ UNCHANGED notPlayerVars

(***************************************************************************)
(* queue_audio(audio_data): called from the event loop (_on_gemini_audio)   *)
(***************************************************************************)
\* if not self._is_playing: return ; new_samples = np.frombuffer(...)
\* mutant: queue_audio buffers the audio whether playback is active or not
M_QueueWhenStopped(playing, n) == [pending |-> n, pc |-> "queue_append"]

\* queue_audio up to the lock: the samples to append, and where the call goes
QueueAudioEffect(playing, n) ==
    IF playing
    THEN [pending |-> n, pc |-> "queue_append"]
    ELSE [pending |-> 0, pc |-> "idle"]

QueueAudioCheckStep(n) ==
    /\ pcControl = "idle"
    /\ LET r == QueueAudioEffect(is_playing, n)
       IN  /\ pendingChunk' = r.pending
           /\ pcControl' = r.pc
    /\ lastQueueCall' = IF is_playing THEN "playing" ELSE "stopped"
    /\ UNCHANGED <<samples, read_index, playback_started, is_playing, pcPlayback,
                   lastChunk, appended, expectedNext, lastExpected,
                   sessionEmitted, sessions>>
    /\ Observe

QueueAudioCheck ==
    /\ \E n \in ChunkSizes :
        /\ appended + n <= MaxAppended
        /\ QueueAudioCheckStep(n)
    /\ UNCHANGED notPlayerVars

\* with self._buffer_lock: self._samples = np.concatenate([self._samples, new_samples])
QueueAudioAppendStep ==
    /\ pcControl = "queue_append"
    /\ samples' = Concatenate(samples, Run(appended, pendingChunk))
    /\ appended' = appended + pendingChunk
    /\ pendingChunk' = 0
    /\ pcControl' = "idle"
    /\ UNCHANGED <<read_index, playback_started, is_playing, pcPlayback, lastChunk,
                   expectedNext, lastExpected, sessionEmitted, sessions, lastQueueCall>>
    /\ Observe

QueueAudioAppend ==
    /\ QueueAudioAppendStep
    /\ UNCHANGED notPlayerVars

(***************************************************************************)
(* stop_playback(): called from the event loop (stop_playback_stream,       *)
(* cleanup)                                                                 *)
(***************************************************************************)
\* self._is_playing = False
StopPlaybackFlagStep ==
    /\ pcControl = "idle"
    /\ is_playing' = FALSE
    /\ pcControl' = "stop_join"
    /\ UNCHANGED <<samples, read_index, playback_started, pendingChunk, pcPlayback,
                   lastChunk, appended, expectedNext, lastExpected,
                   sessionEmitted, sessions, lastQueueCall>>
    /\ Observe

StopPlaybackFlag ==
    /\ sessions > 0
    /\ StopPlaybackFlagStep
    /\ UNCHANGED notPlayerVars

\* thread.join(); with self._buffer_lock: reset; self._playback_started = False
StopPlaybackResetStep ==
    /\ pcControl = "stop_join"
    /\ pcPlayback \in {"none", "done"}
    /\ samples' = <<>>
    /\ read_index' = 0
    /\ expectedNext' = appended
    /\ playback_started' = FALSE
    /\ pcControl' = "idle"
    /\ UNCHANGED <<is_playing, pendingChunk, pcPlayback, lastChunk, appended,
                   lastExpected, sessionEmitted, sessions, lastQueueCall>>
    /\ Observe

StopPlaybackReset ==
    /\ StopPlaybackResetStep
    /\ UNCHANGED notPlayerVars

\* stop_playback() when join(timeout=1.0) returns with the thread still
\* alive (the thread is inside stream.write or has not been scheduled): the
\* buffer is reset all the same
StopPlaybackJoinTimeout ==
    /\ pcControl = "stop_join"
    /\ pcPlayback \in {"loop", "get"}
    /\ samples' = <<>>
    /\ read_index' = 0
    /\ expectedNext' = appended
    /\ playback_started' = FALSE
    /\ pcControl' = "idle"
    /\ UNCHANGED <<is_playing, pendingChunk, pcPlayback, lastChunk, appended,
                   lastExpected, sessionEmitted, sessions, lastQueueCall>>
    /\ Observe
    /\ UNCHANGED notPlayerVars

(***************************************************************************)
(* _playback_loop (the playback thread)                                     *)
(***************************************************************************)
\* while self._is_playing:
PlaybackLoopCheck ==
    /\ pcPlayback = "loop"
    /\ pcPlayback' = IF is_playing THEN "get" ELSE "done"
    /\ UNCHANGED <<samples, read_index, playback_started, is_playing, pcControl,
                   pendingChunk, lastChunk, appended, expectedNext, lastExpected,
                   sessionEmitted, sessions, lastQueueCall>>
    /\ UNCHANGED notPlayerVars
    /\ Observe

\* chunk = self._get_samples(self._chunk_samples); stream.write(chunk) or sleep
PlaybackGetSamples ==
    /\ pcPlayback = "get"
    /\ LET r == GetSamples(samples, read_index, playback_started, ChunkSamples)
           got == IF r.ret = None THEN 0 ELSE SamplesLen(r.ret)
       IN  /\ samples' = r.samples
           /\ read_index' = r.read_index
           /\ playback_started' = r.started
           /\ lastChunk' = r.ret
           /\ lastExpected' = expectedNext
           /\ expectedNext' = expectedNext + got
           /\ sessionEmitted' = sessionEmitted + got
    /\ pcPlayback' = "loop"
    /\ UNCHANGED <<is_playing, pcControl, pendingChunk, appended, sessions, lastQueueCall>>
    /\ UNCHANGED notPlayerVars
    /\ Observe

(***************************************************************************)
(* Claims about the playback buffer                                         *)
(***************************************************************************)
\* C1: the samples returned by _get_samples are in append order (FIFO): each
\* returned chunk is exactly the oldest not yet returned samples, in order,
\* and the unread part of the buffer is exactly the samples appended and not
\* yet returned, in order, for every interleaving of queue_audio with the
\* playback loop, compaction included.
C1_ReadOrderIsAppendOrder ==
    /\ lastChunk # None =>
          lastChunk = Run(lastExpected, SamplesLen(lastChunk))
    /\ Slice(samples, read_index, SamplesLen(samples))
          = Run(expectedNext, appended - expectedNext)

\* a read after a compaction has returned samples
C1_Witness ==
    /\ sessionEmitted > CompactThreshold
    /\ read_index > 0
    /\ lastChunk # None

\* C2: after start_playback() no sample is returned before the unread
\* length (appended minus consumed) has reached the pre-buffer threshold.
C2_PrebufferBeforeEmit ==
    sessionEmitted > 0 => prebuffered

\* samples were returned in a second playback session
C2_Witness ==
    /\ sessions = 2
    /\ sessionEmitted > 0
    /\ lastChunk # None

\* C13: a queue_audio call made while playback is not active (before
\* start_playback or after stop_playback) changes neither the buffer nor the
\* read cursor and does not go on to append; the buffer grows only by the
\* append of a call that was made while playback was active.
C13_QueueWhenStoppedIsNoOp ==
    /\ [](lastQueueCall = "stopped" => (pcControl # "queue_append" /\ pendingChunk = 0))
    /\ [][ (lastQueueCall' = "stopped" /\ lastQueueCall # "stopped")
            => ( /\ ~is_playing
                 /\ samples' = samples
                 /\ read_index' = read_index
                 /\ appended' = appended ) ]_vars
    /\ [][ SamplesLen(samples') > SamplesLen(samples)
            => (pcControl = "queue_append" /\ lastQueueCall = "playing") ]_vars

\* queue_audio was called after the stop_playback() of the first session
C13_Witness ==
    /\ sessions = 1
    /\ ~is_playing
    /\ lastQueueCall = "stopped"
    /\ pcControl = "idle"
    /\ samples = <<>>

\* C14: _playback_started is cleared only by start_playback() and
\* stop_playback(), never by the playback loop; while it is set, a read that
\* finds any unread samples returns them (up to one chunk), however few.
C14_PrebufferNotRearmed ==
    /\ [][ (playback_started /\ ~playback_started')
            => pcControl \in {"start_flags", "stop_join"} ]_vars
    /\ [][ ( /\ pcPlayback = "get" /\ pcPlayback' = "loop"
             /\ playback_started /\ Available > 0 )
            => ( /\ lastChunk' # None
                 /\ SamplesLen(lastChunk') = Min(ChunkSamples, Available) ) ]_vars

\* after an underrun in the session, the latest read returned samples
\* although fewer than the threshold were buffered
C14_Witness ==
    /\ is_playing
    /\ playback_started
    /\ underrun
    /\ lastChunk # None
    /\ appended - lastExpected < PrebufferSamples

\* a pass of the playback loop through _get_samples
ReadStep == pcPlayback = "get" /\ pcPlayback' = "loop" /\ pcControl' = pcControl

\* C33: the read cursor stays within the buffer (0 <= cursor <= length),
\* whatever the interleaving of start_playback, queue_audio, _get_samples
\* and stop_playback (a stop_playback whose join timed out included), and a
\* read returns only samples the buffer held from the cursor on
C33_CursorWithinBuffer ==
    /\ [](0 <= read_index /\ read_index <= SamplesLen(samples))
    /\ [][ (ReadStep /\ lastChunk' # None)
            => ( /\ SamplesLen(lastChunk') <= SamplesLen(samples) - read_index
                 /\ lastChunk' = Slice(samples, read_index,
                                       read_index + SamplesLen(lastChunk')) ) ]_vars

\* stop_playback() gave up its join and emptied the buffer while the
\* playback thread, which had read up to the end of the buffer, was about
\* to read again
C33_Witness ==
    /\ ~is_playing
    /\ pcControl = "idle"
    /\ pcPlayback = "get"
    /\ lastChunk # None
    /\ SamplesLen(lastChunk) < ChunkSamples
    /\ samples = <<>>
    /\ read_index = 0

\* C34: after every read the cursor is at most the threshold; a read that
\* moves the cursor past the threshold drops exactly the consumed prefix,
\* sets the cursor to 0 and keeps the unread samples as they were, in order;
\* any other read leaves the buffer as it was
C34_CompactionBoundsPrefix ==
    /\ [](read_index <= CompactThreshold)
    /\ [][ (ReadStep /\ lastChunk' # None)
            => LET end == read_index + SamplesLen(lastChunk')
               IN  IF end > CompactThreshold
                   THEN /\ read_index' = 0
                        /\ SamplesLen(samples') = SamplesLen(samples) - end
                        /\ samples' = Slice(samples, end, SamplesLen(samples))
                   ELSE /\ read_index' = end
                        /\ samples' = samples ]_vars

\* the latest read compacted the buffer and left unread samples
C34_Witness ==
    /\ lastChunk # None
    /\ read_index = 0
    /\ lastExpected + SamplesLen(lastChunk) > CompactThreshold
    /\ lastExpected + SamplesLen(lastChunk) = expectedNext
    /\ samples # <<>>
    /\ pcPlayback = "loop"

InitPlayer ==
    /\ samples = <<>>
    /\ read_index = 0
    /\ playback_started = FALSE
    /\ is_playing = FALSE
    /\ pcControl = "idle"
    /\ pendingChunk = 0
    /\ pcPlayback = "none"
    /\ lastChunk = None
    /\ appended = 0
    /\ expectedNext = 0
    /\ lastExpected = 0
    /\ sessionEmitted = 0
    /\ prebuffered = FALSE
    /\ sessions = 0
    /\ lastQueueCall = "none"
    /\ underrun = FALSE

NextPlayer ==
    \/ StartPlaybackReset
    \/ StartPlaybackRun
    \/ QueueAudioCheck
    \/ QueueAudioAppend
    \/ StopPlaybackFlag
    \/ StopPlaybackReset
    \/ PlaybackLoopCheck
    \/ PlaybackGetSamples

\* the same, with the stop_playback() calls whose join times out
NextPlayerJoinTimeout ==
    \/ NextPlayer
    \/ StopPlaybackJoinTimeout

(***************************************************************************)
(* AudioHandler (src/src/audio/handler.py): conversation capture            *)
(*                                                                          *)
(* Frames are numbered in capture order from 0 at each start_streaming();   *)
(* the asyncio.Queue holds frame ids, run-length encoded like the sample    *)
(* arrays above.                                                            *)
(***************************************************************************)
QueueMaxSize == 500

\* Bounds of the model
MaxFrames == 503
MaxStreamSessions == 2
MaxMuteCalls == 2
MaxMuteFrame == 2
MaxDelivered == 2

QSize(q) == SamplesLen(q)

\* asyncio.Queue.full()
QueueFull(q) == QSize(q) >= QueueMaxSize

\* mutant: the queue accepts a frame whatever its size
M_PutNowaitUnbounded(q, item) == Concatenate(q, Run(item, 1))

\* asyncio.Queue.put_nowait(item): the new content, or "QueueFull" when it raises
PutNowait(q, item) ==
    IF QueueFull(q) THEN "QueueFull" ELSE Concatenate(q, Run(item, 1))

\* audio_callback(indata, ...): the new queue and drop counter
AudioCallbackEffect(recording, q, muted, count, frame) ==
    IF recording /\ q # None /\ ~muted
    THEN LET r == PutNowait(q, frame)
         IN  IF r = "QueueFull"
             THEN [queue |-> q, count |-> count + 1, frame |-> "dropped"]
             ELSE [queue |-> r, count |-> count, frame |-> "queued"]
    ELSE [queue |-> q, count |-> count, frame |-> "discarded"]

\* start_streaming(): new queue, recording flag, counters; then the
\* sounddevice stream is opened and started (it may fail to open), or the
\* PyAudio thread is started
StartStreamingStep ==
    /\ audio_queue' = <<>>
    /\ is_recording' = TRUE
    /\ queue_full_count' = 0
    /\ framesCaptured' = 0
    /\ delivered' = 0
    /\ lastFrame' = "None"
    /\ streamSessions' = streamSessions + 1
    /\ pcStream' = "idle"
    /\ IF use_sounddevice
       THEN /\ stream' \in {"open", "None"}
            /\ UNCHANGED pcPyaudio
       ELSE /\ pcPyaudio' = "run"
            /\ UNCHANGED stream
    /\ UNCHANGED <<use_sounddevice, is_muted, muteCalls, lastMuteCall>>

StartStreaming ==
    /\ streamSessions < MaxStreamSessions
    /\ ~is_recording
    /\ pcStream \in {"idle", "done", "raised"}
    /\ StartStreamingStep
    /\ UNCHANGED notHandlerVars

\* stop_streaming()
StopStreamingStep ==
    /\ is_recording' = FALSE
    /\ stream' = IF stream # "None" /\ use_sounddevice THEN "None" ELSE stream
    /\ audio_queue' = None
    /\ UNCHANGED <<use_sounddevice, is_muted, queue_full_count, pcPyaudio, pcStream,
                   framesCaptured, delivered, lastFrame, streamSessions, muteCalls, lastMuteCall>>

StopStreaming ==
    /\ streamSessions > 0
    /\ StopStreamingStep
    /\ UNCHANGED notHandlerVars

MuteCall(op, last) == [op |-> op, repeated |-> last.op = op]
NoMuteCall == [op |-> "none", repeated |-> FALSE]

\* mutant: mute() toggles the flag
M_MuteToggles(muted) == ~muted

\* mute(): self._is_muted = True
MuteEffect(muted) == TRUE

Mute ==
    /\ muteCalls < MaxMuteCalls
    /\ framesCaptured <= MaxMuteFrame
    /\ is_muted' = MuteEffect(is_muted)
    /\ muteCalls' = muteCalls + 1
    /\ lastMuteCall' = MuteCall("mute", lastMuteCall)
    /\ UNCHANGED <<use_sounddevice, audio_queue, is_recording, stream, queue_full_count,
                   pcPyaudio, pcStream, framesCaptured, delivered, lastFrame,
                   streamSessions>>
    /\ UNCHANGED notHandlerVars

\* unmute(): self._is_muted = False
UnmuteEffect(muted) == FALSE

Unmute ==
    /\ muteCalls < MaxMuteCalls
    /\ framesCaptured <= MaxMuteFrame
    /\ is_muted' = UnmuteEffect(is_muted)
    /\ muteCalls' = muteCalls + 1
    /\ lastMuteCall' = MuteCall("unmute", lastMuteCall)
    /\ UNCHANGED <<use_sounddevice, audio_queue, is_recording, stream, queue_full_count,
                   pcPyaudio, pcStream, framesCaptured, delivered, lastFrame,
                   streamSessions>>
    /\ UNCHANGED notHandlerVars

\* the sounddevice driver calls audio_callback with one captured frame
AudioCallback ==
    /\ stream = "open"
    /\ framesCaptured < MaxFrames
    /\ LET r == AudioCallbackEffect(is_recording, audio_queue, is_muted,
                                    queue_full_count, framesCaptured)
       IN  /\ audio_queue' = r.queue
           /\ queue_full_count' = r.count
           /\ lastFrame' = r.frame
    /\ framesCaptured' = framesCaptured + 1
    /\ UNCHANGED <<use_sounddevice, is_recording, is_muted, stream, pcPyaudio, pcStream,
                   delivered, streamSessions, muteCalls, lastMuteCall>>
    /\ UNCHANGED notHandlerVars

\* one iteration of pyaudio_thread's loop.  asyncio.get_event_loop() raises
\* RuntimeError in a thread that has no event loop, so the first frame that
\* is neither muted nor without a queue ends the thread (except: log, break)
\* before anything is enqueued.
PyaudioThreadStep ==
    /\ pcPyaudio = "run"
    /\ IF ~is_recording
       THEN /\ pcPyaudio' = "done"
            /\ UNCHANGED <<framesCaptured, lastFrame>>
       ELSE /\ framesCaptured < MaxFrames
            /\ framesCaptured' = framesCaptured + 1
            /\ IF is_muted
               THEN /\ lastFrame' = "discarded"
                    /\ UNCHANGED pcPyaudio
               ELSE IF audio_queue # None
               THEN /\ lastFrame' = "error"
                    /\ pcPyaudio' = "done"
               ELSE /\ lastFrame' = "discarded"
                    /\ UNCHANGED pcPyaudio
    /\ UNCHANGED <<use_sounddevice, audio_queue, is_recording, is_muted, stream,
                   queue_full_count, pcStream, delivered, streamSessions, muteCalls, lastMuteCall>>
    /\ UNCHANGED notHandlerVars

\* mutant: get_audio_stream() does not check that streaming has started
M_OpenNeverRaises(q) == "loop"

\* get_audio_stream(), up to the loop: if not self._audio_queue: raise RuntimeError
StreamOpenEffect(q) == IF q = None THEN "raised" ELSE "loop"

\* a consumer starts to iterate get_audio_stream()
GetAudioStreamOpen ==
    /\ pcStream \in {"idle", "done", "raised"}
    /\ pcStream' = StreamOpenEffect(audio_queue)
    /\ UNCHANGED <<use_sounddevice, audio_queue, is_recording, is_muted, stream,
                   queue_full_count, pcPyaudio, framesCaptured, delivered, lastFrame,
                   streamSessions, muteCalls, lastMuteCall>>
    /\ UNCHANGED notHandlerVars

\* mutant: the loop runs whatever the recording flag says and lets the
\* failure of the call on a released queue through
M_LoopUnguarded(recording, q) == IF q = None THEN "raised" ELSE "wait"

\* while self._is_recording: try: ... self._audio_queue.get() ...
\* except Exception: break
StreamLoopEffect(recording, q) ==
    IF ~recording THEN "done"
    ELSE IF q = None THEN "done"
    ELSE "wait"

GetAudioStreamLoop ==
    /\ pcStream = "loop"
    /\ pcStream' = StreamLoopEffect(is_recording, audio_queue)
    /\ UNCHANGED <<use_sounddevice, audio_queue, is_recording, is_muted, stream,
                   queue_full_count, pcPyaudio, framesCaptured, delivered, lastFrame,
                   streamSessions, muteCalls, lastMuteCall>>
    /\ UNCHANGED notHandlerVars

\* mutant: the queue hands out its newest item
M_QueueGetNewest(q) ==
    [item |-> q[Len(q)].first + q[Len(q)].n - 1,
     queue |-> TakeSamples(q, SamplesLen(q) - 1)]

\* asyncio.Queue.get() on a queue that is not empty: the oldest item, and
\* the queue without it
QueueGet(q) == [item |-> Head(q).first, queue |-> DropSamples(q, 1)]

\* await asyncio.wait_for(self._audio_queue.get(), timeout=1.0); yield audio_data
GetAudioStreamGetStep ==
    /\ pcStream = "wait"
    /\ audio_queue # None
    /\ audio_queue # <<>>
    /\ delivered < MaxDelivered
    /\ audio_queue' = QueueGet(audio_queue).queue
    /\ delivered' = delivered + 1
    /\ pcStream' = "loop"
    /\ UNCHANGED <<use_sounddevice, is_recording, is_muted, stream, queue_full_count,
                   pcPyaudio, framesCaptured, lastFrame, streamSessions, muteCalls, lastMuteCall>>

GetAudioStreamGet ==
    /\ GetAudioStreamGetStep
    /\ UNCHANGED notHandlerVars

\* except asyncio.TimeoutError: continue
GetAudioStreamTimeout ==
    /\ pcStream = "wait"
    /\ audio_queue = None \/ audio_queue = <<>>
    /\ pcStream' = "loop"
    /\ UNCHANGED <<use_sounddevice, audio_queue, is_recording, is_muted, stream,
                   queue_full_count, pcPyaudio, framesCaptured, delivered, lastFrame,
                   streamSessions, muteCalls, lastMuteCall>>
    /\ UNCHANGED notHandlerVars

(***************************************************************************)
(* Claims about the capture queue                                           *)
(***************************************************************************)
\* C3: the capture queue never holds more than QueueMaxSize chunks; a frame
\* that arrives while the queue is full leaves the queue unchanged and
\* increases the drop counter by one; and the producer is never blocked:
\* whenever the stream is open the callback can run to completion.
C3_CapacityAndDrop ==
    /\ [](audio_queue # None => QSize(audio_queue) <= QueueMaxSize)
    /\ [](stream = "open" /\ framesCaptured < MaxFrames => ENABLED AudioCallback)
    /\ [][ ( /\ framesCaptured' = framesCaptured + 1
             /\ is_recording /\ audio_queue # None /\ ~is_muted
             /\ QSize(audio_queue) >= QueueMaxSize )
           => ( /\ audio_queue' = audio_queue
                /\ queue_full_count' = queue_full_count + 1
                /\ lastFrame' = "dropped" ) ]_vars

\* a frame was dropped on a full queue
C3_Witness ==
    /\ audio_queue # None
    /\ QSize(audio_queue) = QueueMaxSize
    /\ queue_full_count > 0
    /\ lastFrame = "dropped"

\* the capture step of either path (audio_callback, or one round of
\* pyaudio_thread with a frame read)
FrameCaptured == framesCaptured' = framesCaptured + 1

\* C15: a frame captured while muted leaves the queue as it is and is
\* discarded; a frame captured while not muted, with streaming on and room
\* in the queue, is appended to the queue: on the callback path and on the
\* thread path.
C15_MutedFramesDiscarded ==
    [][ FrameCaptured
        => ( /\ is_muted => (audio_queue' = audio_queue /\ lastFrame' = "discarded")
             /\ (~is_muted /\ is_recording /\ audio_queue # None /\ ~QueueFull(audio_queue))
                    => ( /\ audio_queue' = Concatenate(audio_queue, Run(framesCaptured, 1))
                         /\ lastFrame' = "queued" ) ) ]_vars

\* C16: after mute() the flag is set and after unmute() it is clear,
\* whatever it was before, so a repeated call leaves the state of the first;
\* a call changes nothing but the flag.
C16_MuteIdempotent ==
    /\ [](lastMuteCall.op = "mute" => is_muted)
    /\ [](lastMuteCall.op = "unmute" => ~is_muted)
    /\ [][ muteCalls' # muteCalls
            => ( /\ lastMuteCall'.op \in {"mute", "unmute"}
                 /\ (lastMuteCall'.repeated => is_muted' = is_muted)
                 /\ UNCHANGED <<use_sounddevice, audio_queue, is_recording, stream,
                                queue_full_count, pcPyaudio, pcStream, framesCaptured,
                                delivered, lastFrame, streamSessions>> ) ]_vars

\* mute() was called twice in a row while streaming with a queued frame
C16_Witness ==
    /\ lastMuteCall = [op |-> "mute", repeated |-> TRUE]
    /\ muteCalls = 2
    /\ is_muted
    /\ is_recording
    /\ audio_queue # None /\ audio_queue # <<>>

\* C17: the queue is absent exactly when streaming is off (no
\* start_streaming since construction or since the last stop_streaming); a
\* get_audio_stream() iteration begun then fails at once, without yielding
\* a chunk, and one begun while streaming is on does not fail.
C17_NotStartedRaises ==
    /\ []((audio_queue = None) <=> ~is_recording)
    /\ [][ (pcStream \in {"idle", "done", "raised"} /\ pcStream' \in {"loop", "raised"})
            => ( /\ (~is_recording <=> pcStream' = "raised")
                 /\ delivered' = delivered
                 /\ audio_queue' = audio_queue ) ]_vars

\* an iteration begun after the stop_streaming() of the first session has
\* failed
C17_Witness ==
    /\ streamSessions = 1
    /\ ~is_recording
    /\ audio_queue = None
    /\ pcStream = "raised"

\* the consumer is inside the loop of get_audio_stream()
Iterating == pcStream \in {"loop", "wait"}

\* C18: an iteration of get_audio_stream() that is under way never fails;
\* once streaming is stopped it yields no further chunk, and it ends.
C18_StopEndsIteration ==
    /\ [][ Iterating => pcStream' # "raised" ]_vars
    /\ [][ (Iterating /\ ~is_recording /\ ~is_recording') => delivered' = delivered ]_vars
    /\ ((Iterating /\ ~is_recording) ~> (pcStream = "done"))

\* streaming was stopped while the consumer was waiting on the queue, after
\* a chunk had been yielded
C18_Witness ==
    /\ pcStream = "wait"
    /\ ~is_recording
    /\ audio_queue = None
    /\ delivered > 0

(***************************************************************************)
(* VoiceAssistant._send_audio_loop (src/src/assistant.py): the consumer of  *)
(* get_audio_stream()                                                       *)
(***************************************************************************)
SentChunk(stream_session, frame) == [session |-> stream_session, frame |-> frame]

\* a was captured before b
CapturedBefore(a, b) ==
    \/ a.session < b.session
    \/ a.session = b.session /\ a.frame < b.frame

\* async for audio_chunk in get_audio_stream(): if not
\* self._is_in_conversation: break; await send_audio(audio_chunk).  A chunk
\* yielded after the conversation has ended is not passed on.
SendAudioLoopChunk ==
    /\ GetAudioStreamGetStep
    /\ \E in_conversation \in BOOLEAN :
        sentChunks' = IF in_conversation
                      THEN <<SentChunk(streamSessions, QueueGet(audio_queue).item)>>
                      ELSE sentChunks
    /\ UNCHANGED <<playerVars, clientVars, assistantVars, detectorVars, sessionVars,
                   roundTripVars, initializeVars, timerVars, musicVars>>

\* C32: the chunks passed to send_audio are captured frames in capture
\* order: each chunk passed was captured after the chunk passed before it
\* (frames of a later start_streaming() count as later), so that none is
\* passed twice or out of order, and each is a frame the device has
\* delivered
C32_CaptureOrder ==
    /\ [][ (sentChunks' # sentChunks /\ sentChunks # <<>>)
            => CapturedBefore(sentChunks[1], sentChunks'[1]) ]_vars
    /\ [](\A i \in 1..Len(sentChunks) :
            /\ sentChunks[i].session <= streamSessions
            /\ sentChunks[i].session = streamSessions
                    => sentChunks[i].frame < framesCaptured)

\* frame 1 was captured while the microphone was muted: frame 2 was passed
\* on as the second chunk of the session, and a later frame is still queued
C32_Witness ==
    /\ sentChunks = <<SentChunk(1, 2)>>
    /\ delivered = 2
    /\ audio_queue # None
    /\ audio_queue # <<>>

InitSendLoop == sentChunks = <<>>

NextSendLoop ==
    \/ StartStreaming
    \/ StopStreaming
    \/ Mute
    \/ Unmute
    \/ AudioCallback
    \/ PyaudioThreadStep
    \/ GetAudioStreamOpen
    \/ GetAudioStreamLoop
    \/ SendAudioLoopChunk
    \/ GetAudioStreamTimeout

InitHandler ==
    /\ use_sounddevice \in BOOLEAN
    /\ audio_queue = None
    /\ is_recording = FALSE
    /\ is_muted = FALSE
    /\ stream = "None"
    /\ queue_full_count = 0
    /\ pcPyaudio = "none"
    /\ pcStream = "idle"
    /\ framesCaptured = 0
    /\ delivered = 0
    /\ lastFrame = "None"
    /\ streamSessions = 0
    /\ muteCalls = 0
    /\ lastMuteCall = NoMuteCall

NextHandler ==
    \/ StartStreaming
    \/ StopStreaming
    \/ Mute
    \/ Unmute
    \/ AudioCallback
    \/ PyaudioThreadStep
    \/ GetAudioStreamOpen
    \/ GetAudioStreamLoop
    \/ GetAudioStreamGet
    \/ GetAudioStreamTimeout

(***************************************************************************)
(* GeminiLiveClient (src/src/gemini/client.py)                              *)
(*                                                                          *)
(* A JSON object with one key is the record [key, text]; a Python value a   *)
(* handler returns is the record [type, str, int, dict] of which the field  *)
(* named by type is the value.                                              *)
(***************************************************************************)
\* Bounds of the model
MaxConnects == 2
MaxRegistrations == 2
MaxCallsPerEvent == 2
MaxCallsTotal == 2

\* self._ws = None (connections are numbered from 1)
NoWs == 0

ToolNames == {"get_weather"}
CallNames == ToolNames \cup {"unknown_tool"}

Obj(key, text) == [key |-> key, text |-> text]
NoDict == Obj("", "")

StrValue(t) == [type |-> "str", str |-> t, int |-> 0, dict |-> NoDict, json |-> TRUE]
IntValue(n) == [type |-> "int", str |-> "", int |-> n, dict |-> NoDict, json |-> TRUE]
\* json: whether json.dumps accepts the dict
DictValue(d, json) == [type |-> "dict", str |-> "", int |-> 0, dict |-> d, json |-> json]

IntResults == {42}
\* str(n) for the integers of IntResults
Str(n) == IF n = 0 THEN "0" ELSE IF n = 42 THEN "42" ELSE "?"

ReturnValues ==
    {StrValue("Es sind 20 Grad")}
        \cup {IntValue(n) : n \in IntResults}
        \cup {DictValue(Obj("status", "ok"), TRUE), DictValue(Obj("when", "datetime"), FALSE)}

ErrorMessages == {"boom"}

Returned(v) == [kind |-> "return", value |-> v, msg |-> ""]
Raised(m) == [kind |-> "raise", value |-> StrValue(""), msg |-> m]
Unknown == [kind |-> "unknown", value |-> StrValue(""), msg |-> ""]
NoOutcome == [kind |-> "none", value |-> StrValue(""), msg |-> ""]

\* what a registered handler can do when it is called
HandlerOutcomes == {Returned(v) : v \in ReturnValues} \cup {Raised(m) : m \in ErrorMessages}

\* _send_tool_response: the response object for a result (lines 294-299)
ResponseObj(result) ==
    IF result.type = "str" THEN Obj("result", result.str)
    ELSE IF result.type = "dict" THEN result.dict
    ELSE Obj("result", Str(result.int))

\* _send_tool_response: the function response of the message (lines 301-309)
FunctionResponse(call_id, name, result) ==
    [id |-> call_id, name |-> name, response |-> ResponseObj(result)]

\* {"error": str(e)} and {"error": f"Tool '{name}' nicht gefunden"}
ErrorResult(text) == DictValue(Obj("error", text), TRUE)
NotFoundText(name) == "Tool '" \o name \o "' nicht gefunden"
NotSerializableText == "Object is not JSON serializable"

\* mutant: an unknown tool is only logged
M_UnknownToolSilent(fc) == <<>>

\* _handle_tool_call, else branch (lines 286-288): the results to send
UnknownToolResults(fc) == <<ErrorResult(NotFoundText(fc.name))>>

\* mutant: a handler exception is only logged
M_HandlerRaisedSilent(msg) == <<>>

\* _handle_tool_call, except branch (lines 283-285): the results to send
HandlerRaisedResults(msg) == <<ErrorResult(msg)>>

\* _handle_tool_call, try branch (lines 271-281) followed by the except
\* branch when json.dumps rejects the result inside _send_tool_response
HandlerReturnedResults(value) ==
    IF value.json THEN <<value>> ELSE HandlerRaisedResults(NotSerializableText)

\* the results _handle_tool_call sends for one function call, given what
\* the handler did
ResultsToSend(fc, outcome) ==
    IF outcome.kind = "unknown" THEN UnknownToolResults(fc)
    ELSE IF outcome.kind = "raise" THEN HandlerRaisedResults(outcome.msg)
    ELSE HandlerReturnedResults(outcome.value)

\* _send_message: what sending does with the connection as it is
SendStatus(handle, open) ==
    IF handle = NoWs THEN "RuntimeError"
    ELSE IF handle \notin open THEN "ConnectionClosed"
    ELSE "sent"

RECURSIVE Responses(_, _, _)
Responses(call_id, name, results) ==
    IF results = <<>> THEN <<>>
    ELSE <<FunctionResponse(call_id, name, Head(results))>>
            \o Responses(call_id, name, Tail(results))

\* register_tool(name, description, parameters, handler)
RegisterTool ==
    /\ Len(tools) < MaxRegistrations
    /\ \E name \in ToolNames :
        /\ tools' = Append(tools, name)
        /\ tool_handlers' = tool_handlers \cup {name}
    /\ UNCHANGED <<ws, is_connected, is_streaming, openConns, connCount, pcDisconnect,
                   pcRecv, curCalls, callIdx, pending, outbox, callLog, callCount>>
    /\ UNCHANGED notClientVars

\* connect(): websockets.connect, then _send_setup (send, recv, json.loads).
\* reach: the backend is reachable; setup: "complete"; "other" (a reply that
\* is not setupComplete: only logged); "closed" (send or recv raises, the
\* peer having closed the connection); "invalid" (the reply is not JSON:
\* json.loads raises, the connection is still open)
SetupOutcomes == {"complete", "other", "closed", "invalid"}

ConnectRaises(connected, reach, setup) ==
    ~connected /\ (~reach \/ setup \in {"closed", "invalid"})

ConnectEffect(connected, handle, open, count, reach, setup) ==
    IF connected \/ ~reach
    THEN [ws |-> handle, is_connected |-> connected, openConns |-> open,
          connCount |-> count]
    ELSE [ws |-> count + 1, is_connected |-> TRUE,
          openConns |-> IF setup = "closed" THEN open ELSE open \cup {count + 1},
          connCount |-> count + 1]

ConnectStep(reach, setup) ==
    /\ LET r == ConnectEffect(is_connected, ws, openConns, connCount, reach, setup)
       IN  /\ ws' = r.ws
           /\ is_connected' = r.is_connected
           /\ openConns' = r.openConns
           /\ connCount' = r.connCount
    /\ UNCHANGED <<is_streaming, tools, tool_handlers, pcDisconnect, pcRecv, curCalls,
                   callIdx, pending, outbox, callLog, callCount>>

Connect ==
    /\ connCount < MaxConnects
    /\ pcDisconnect = "idle"
    /\ \E reach \in BOOLEAN, setup \in SetupOutcomes : ConnectStep(reach, setup)
    /\ UNCHANGED notClientVars

\* mutant: close() leaves the connection open
M_CloseNothing(open, handle) == open

\* await self._ws.close()
CloseConnection(open, handle) == open \ {handle}

\* mutant: disconnect() keeps the connected flag
M_DisconnectKeepsFlag(connected) == connected

\* disconnect(): self._is_connected = False
DisconnectFlag(connected) == FALSE

\* disconnect(), up to the await: flags; if self._ws: await self._ws.close()
DisconnectCloseStep ==
    /\ pcDisconnect = "idle"
    /\ is_streaming' = FALSE
    /\ is_connected' = DisconnectFlag(is_connected)
    /\ openConns' = CloseConnection(openConns, ws)
    /\ pcDisconnect' = IF ws # NoWs THEN "closing" ELSE "idle"
    /\ UNCHANGED <<ws, tools, tool_handlers, connCount, pcRecv, curCalls, callIdx,
                   pending, outbox, callLog, callCount>>

DisconnectClose ==
    /\ DisconnectCloseStep
    /\ UNCHANGED notClientVars

\* disconnect(), after the await: self._ws = None
DisconnectReleaseStep ==
    /\ pcDisconnect = "closing"
    /\ ws' = NoWs
    /\ pcDisconnect' = "idle"
    /\ UNCHANGED <<is_connected, is_streaming, tools, tool_handlers, openConns,
                   connCount, pcRecv, curCalls, callIdx, pending, outbox, callLog,
                   callCount>>

DisconnectRelease ==
    /\ DisconnectReleaseStep
    /\ UNCHANGED notClientVars

\* the backend closes the connection
PeerClosesStep ==
    /\ ws \in openConns
    /\ openConns' = openConns \ {ws}
    /\ UNCHANGED <<ws, is_connected, is_streaming, tools, tool_handlers, connCount,
                   pcDisconnect, pcRecv, curCalls, callIdx, pending, outbox, callLog,
                   callCount>>

PeerCloses ==
    /\ PeerClosesStep
    /\ UNCHANGED notClientVars

\* receive_responses(), up to the loop: if not self._ws: return
ReceiveStart ==
    /\ pcRecv \in {"idle", "done"}
    /\ IF ws = NoWs
       THEN /\ pcRecv' = "done"
            /\ UNCHANGED is_streaming
       ELSE /\ pcRecv' = "recv"
            /\ is_streaming' = TRUE
    /\ UNCHANGED <<ws, is_connected, tools, tool_handlers, openConns, connCount,
                   pcDisconnect, curCalls, callIdx, pending, outbox, callLog, callCount>>
    /\ UNCHANGED notClientVars

\* the loop ends: the connection was closed (async for ends on a normal
\* closure and raises ConnectionClosed otherwise), and the finally clause
ReceiveClosed ==
    /\ pcRecv = "recv"
    /\ ws \notin openConns
    /\ \E normal \in BOOLEAN :
         is_connected' = IF normal THEN is_connected ELSE FALSE
    /\ is_streaming' = FALSE
    /\ pcRecv' = "done"
    /\ UNCHANGED <<ws, tools, tool_handlers, openConns, connCount, pcDisconnect,
                   curCalls, callIdx, pending, outbox, callLog, callCount>>
    /\ UNCHANGED notClientVars

\* async for message in self._ws: a message that is no tool call (server
\* content, or invalid JSON, which is logged)
ReceiveOther ==
    /\ pcRecv = "recv"
    /\ ws \in openConns
    /\ UNCHANGED clientVars
    /\ UNCHANGED notClientVars

\* async for message in self._ws: a toolCall event with n function calls;
\* _handle_tool_call is entered
ReceiveToolCall ==
    /\ pcRecv = "recv"
    /\ ws \in openConns
    /\ \E n \in 1..MaxCallsPerEvent :
        /\ callCount + n <= MaxCallsTotal
        /\ \E names \in [1..n -> CallNames] :
            curCalls' = [i \in 1..n |-> [id |-> callCount + i, name |-> names[i]]]
        /\ callCount' = callCount + n
    /\ callIdx' = 1
    /\ pending' = NoOutcome
    /\ pcRecv' = "call"
    /\ UNCHANGED <<ws, is_connected, is_streaming, tools, tool_handlers, openConns,
                   connCount, pcDisconnect, outbox, callLog>>
    /\ UNCHANGED notClientVars

\* for fc in function_calls: look the handler up and call it
ToolCallInvoke ==
    /\ pcRecv = "call"
    /\ LET fc == curCalls[callIdx]
       IN  \E outcome \in (IF fc.name \in tool_handlers THEN HandlerOutcomes ELSE {Unknown}) :
            /\ pending' = outcome
            /\ callLog' = Append(callLog, [id |-> fc.id, name |-> fc.name,
                                           event |-> curCalls[1].id,
                                           outcome |-> outcome, status |-> "pending"])
    /\ pcRecv' = "send"
    /\ UNCHANGED <<ws, is_connected, is_streaming, tools, tool_handlers, openConns,
                   connCount, pcDisconnect, curCalls, callIdx, outbox, callCount>>
    /\ UNCHANGED notClientVars

\* await self._send_tool_response(...): the response is sent and the loop
\* goes on with the next call; or sending raises, which ends
\* receive_responses (except ConnectionClosed / except Exception, finally)
ToolCallRespond ==
    /\ pcRecv = "send"
    /\ LET fc == curCalls[callIdx]
           status == SendStatus(ws, openConns)
       IN  IF status = "sent"
           THEN /\ outbox' = outbox \o Responses(fc.id, fc.name, ResultsToSend(fc, pending))
                /\ callLog' = [callLog EXCEPT ![Len(callLog)].status = status]
                /\ callIdx' = callIdx + 1
                /\ pcRecv' = IF callIdx < Len(curCalls) THEN "call" ELSE "recv"
                /\ UNCHANGED <<is_connected, is_streaming, curCalls>>
           ELSE /\ is_connected' = IF status = "ConnectionClosed" THEN FALSE ELSE is_connected
                /\ is_streaming' = FALSE
                /\ callLog' = [callLog EXCEPT ![Len(callLog)].status = status]
                /\ curCalls' = <<>>
                /\ callIdx' = 0
                /\ pcRecv' = "done"
                /\ UNCHANGED outbox
    /\ pending' = NoOutcome
    /\ UNCHANGED <<ws, tools, tool_handlers, openConns, connCount, pcDisconnect,
                   callCount>>
    /\ UNCHANGED notClientVars

\* the calls whose response was sent, in the order they were handled
SentCalls == SelectSeq(callLog, LAMBDA e : e.status = "sent")

\* a response reports an error / carries the payload the handler returned
IsErrorResponse(r) == r.response.key = "error"
IsSuccessPayload(r, value) ==
    r.response = (IF value.type = "str" THEN Obj("result", value.str)
                  ELSE IF value.type = "dict" THEN value.dict
                  ELSE Obj("result", Str(value.int)))

\* C4: every function call of a tool-call event is answered with a response
\* tagged with the call's id: the success payload, or a structured error
\* when the handler raised, the tool is not registered (or the result cannot
\* be serialised); one response per call, in the order of the calls, none
\* dropped: the only calls without a response are the one being handled and
\* one whose response could not be sent because the connection was gone,
\* and once the loop waits for the next event every call of the event has
\* been answered.
C4_EveryCallAnswered ==
    /\ Len(outbox) = Len(SentCalls)
    /\ \A i \in 1..Len(outbox) :
        LET r == outbox[i]
            e == SentCalls[i]
        IN  /\ r.id = e.id
            /\ r.name = e.name
            /\ IF e.outcome.kind = "return" /\ e.outcome.value.json
               THEN IsSuccessPayload(r, e.outcome.value)
               ELSE IsErrorResponse(r)
    /\ \A i \in 1..Len(callLog) :
        \/ callLog[i].status = "sent"
        \/ callLog[i].status \in {"ConnectionClosed", "RuntimeError"}
        \/ callLog[i].status = "pending" /\ i = Len(callLog) /\ pcRecv = "send"
    /\ pcRecv = "recv" =>
        \A k \in 1..Len(curCalls) :
            \E i \in 1..Len(outbox) : outbox[i].id = curCalls[k].id
    /\ pcRecv \in {"call", "send"} =>
        \A k \in 1..(callIdx - 1) :
            \E i \in 1..Len(outbox) : outbox[i].id = curCalls[k].id

\* an event of two calls, the first to an unregistered tool and the second
\* to a registered one, both answered
C4_Witness ==
    /\ pcRecv = "recv"
    /\ Len(curCalls) = 2
    /\ Len(outbox) = 2
    /\ callLog[1].outcome.kind = "unknown"
    /\ callLog[2].outcome.kind = "return"
    /\ outbox[1].id = curCalls[1].id
    /\ outbox[2].id = curCalls[2].id

\* C5: when a handler raises for a call, the backend receives exactly one
\* response for that call id, its response being {"error": <the message>},
\* and the receive loop goes on: after the response it handles the next
\* call of the event or waits for the next event.
C5_HandlerErrorAnswered ==
    /\ [](\A i \in 1..Len(callLog) :
            (callLog[i].outcome.kind = "raise" /\ callLog[i].status = "sent") =>
                /\ Cardinality({j \in 1..Len(outbox) : outbox[j].id = callLog[i].id}) = 1
                /\ \A j \in 1..Len(outbox) :
                     outbox[j].id = callLog[i].id =>
                        outbox[j].response = Obj("error", callLog[i].outcome.msg))
    /\ [][ (pcRecv = "send" /\ pending.kind = "raise" /\ pcRecv' # "send"
                /\ SendStatus(ws, openConns) = "sent")
            => ( /\ pcRecv' \in {"call", "recv"}
                 /\ Len(outbox') = Len(outbox) + 1
                 /\ outbox'[Len(outbox')].id = curCalls[callIdx].id ) ]_vars

\* a handler raised for the call of one event, and the call of the next
\* event was handled and answered
C5_Witness ==
    /\ Len(outbox) = 2
    /\ callLog[1].outcome.kind = "raise"
    /\ callLog[1].status = "sent"
    /\ callLog[2].status = "sent"
    /\ callLog[2].event # callLog[1].event
    /\ pcRecv = "recv"

InitClient ==
    /\ ws = NoWs
    /\ is_connected = FALSE
    /\ is_streaming = FALSE
    /\ tools = <<>>
    /\ tool_handlers = {}
    /\ openConns = {}
    /\ connCount = 0
    /\ pcDisconnect = "idle"
    /\ pcRecv = "idle"
    /\ curCalls = <<>>
    /\ callIdx = 0
    /\ pending = NoOutcome
    /\ outbox = <<>>
    /\ callLog = <<>>
    /\ callCount = 0

NextClient ==
    \/ RegisterTool
    \/ Connect
    \/ DisconnectClose
    \/ DisconnectRelease
    \/ PeerCloses
    \/ ReceiveStart
    \/ ReceiveClosed
    \/ ReceiveOther
    \/ ReceiveToolCall
    \/ ToolCallInvoke
    \/ ToolCallRespond

(***************************************************************************)
(* WakewordDetector (src/src/wakeword/detector.py)                          *)
(*                                                                          *)
(* An engine is the id pvporcupine.create() returned; a frame is its length *)
(* in samples together with what the engine answers when it is given the    *)
(* frame (a keyword index, or an error).                                    *)
(***************************************************************************)
FrameLength == 512

\* Bounds of the model
MaxEngines == 2
MaxCleanups == 3

\* self._porcupine = None
NoEngine == 0

FrameLengths == {0, FrameLength - 1, FrameLength, FrameLength + 1, 2 * FrameLength}

\* what self._porcupine.process(audio_frame) does with a frame: it returns
\* the index of the keyword (-1 for none) or raises
EngineOutcomes ==
    {[raises |-> FALSE, index |-> -1],
     [raises |-> FALSE, index |-> 0],
     [raises |-> TRUE, index |-> -1]}

ProcessResult(ret, raised, engine, callback) ==
    [ret |-> ret, raised |-> raised, engine |-> engine, callback |-> callback]

\* mutant: the frame length is not checked
M_NoLengthCheck(handle, len, outcome, hasCallback) ==
    IF handle = NoEngine
    THEN ProcessResult(FALSE, FALSE, FALSE, FALSE)
    ELSE IF outcome.raises
    THEN ProcessResult(FALSE, TRUE, TRUE, FALSE)
    ELSE IF outcome.index >= 0
    THEN ProcessResult(TRUE, FALSE, TRUE, hasCallback)
    ELSE ProcessResult(FALSE, FALSE, TRUE, FALSE)

\* process_frame(audio_frame): what it returns (ret), whether it raises,
\* whether the frame is passed to the engine and whether on_wakeword is called
ProcessFrameEffect(handle, len, outcome, hasCallback) ==
    IF handle = NoEngine
    THEN ProcessResult(FALSE, FALSE, FALSE, FALSE)
    ELSE IF len # FrameLength
    THEN ProcessResult(FALSE, FALSE, FALSE, FALSE)
    ELSE IF outcome.raises
    THEN ProcessResult(FALSE, TRUE, TRUE, FALSE)
    ELSE IF outcome.index >= 0
    THEN ProcessResult(TRUE, FALSE, TRUE, hasCallback)
    ELSE ProcessResult(FALSE, FALSE, TRUE, FALSE)

\* the record of a process_frame call
ProcessCall(handle, len, r) ==
    [handle |-> handle, len |-> len, ret |-> r.ret, raised |-> r.raised,
     engine |-> r.engine, callback |-> r.callback]

\* no process_frame call yet
NoProcess == ProcessCall(NoEngine, -1, ProcessResult(FALSE, FALSE, FALSE, FALSE))

RECURSIVE Count(_, _)
Count(log, e) ==
    IF log = <<>> THEN 0
    ELSE (IF Head(log) = e THEN 1 ELSE 0) + Count(Tail(log), e)

\* initialize(): pvporcupine.create(...) returns an engine, or raises
\* PorcupineError, which is logged and raised again
DetectorInitializeStep(ok) ==
    /\ IF ok
       THEN /\ porcupine' = enginesCreated + 1
            /\ enginesCreated' = enginesCreated + 1
       ELSE UNCHANGED <<porcupine, enginesCreated>>
    /\ UNCHANGED <<detector_running, on_wakeword, deletedLog, cleanupCalls,
                   lastProcess, usedAfterDelete>>

DetectorInitialize ==
    /\ enginesCreated < MaxEngines
    /\ \E ok \in BOOLEAN : DetectorInitializeStep(ok)
    /\ UNCHANGED notDetectorVars

ProcessFrameStep(len, outcome) ==
    /\ LET r == ProcessFrameEffect(porcupine, len, outcome, on_wakeword)
       IN  /\ lastProcess' = ProcessCall(porcupine, len, r)
           /\ usedAfterDelete' =
                 (usedAfterDelete \/ (r.engine /\ Count(deletedLog, porcupine) > 0))
    /\ UNCHANGED <<porcupine, detector_running, on_wakeword, enginesCreated,
                   deletedLog, cleanupCalls>>

ProcessFrame ==
    /\ \E len \in FrameLengths, outcome \in EngineOutcomes : ProcessFrameStep(len, outcome)
    /\ UNCHANGED notDetectorVars

\* start()
DetectorStartStep ==
    /\ detector_running' = TRUE
    /\ UNCHANGED <<porcupine, on_wakeword, enginesCreated, deletedLog, cleanupCalls,
                   lastProcess, usedAfterDelete>>

DetectorStart ==
    /\ DetectorStartStep
    /\ UNCHANGED notDetectorVars

\* stop()
DetectorStop ==
    /\ detector_running' = FALSE
    /\ UNCHANGED <<porcupine, on_wakeword, enginesCreated, deletedLog, cleanupCalls,
                   lastProcess, usedAfterDelete>>
    /\ UNCHANGED notDetectorVars

\* mutant: cleanup() keeps the handle of the deleted engine
M_CleanupKeepsHandle(handle, log) ==
    IF handle # NoEngine
    THEN [porcupine |-> handle, deletedLog |-> Append(log, handle)]
    ELSE [porcupine |-> handle, deletedLog |-> log]

\* cleanup(): if self._porcupine: self._porcupine.delete(); self._porcupine = None
CleanupEffect(handle, log) ==
    IF handle # NoEngine
    THEN [porcupine |-> NoEngine, deletedLog |-> Append(log, handle)]
    ELSE [porcupine |-> handle, deletedLog |-> log]

DetectorCleanupStep ==
    /\ detector_running' = FALSE
    /\ LET r == CleanupEffect(porcupine, deletedLog)
       IN  /\ porcupine' = r.porcupine
           /\ deletedLog' = r.deletedLog
    /\ cleanupCalls' = cleanupCalls + 1
    /\ UNCHANGED <<on_wakeword, enginesCreated, lastProcess, usedAfterDelete>>

DetectorCleanup ==
    /\ cleanupCalls < MaxCleanups
    /\ DetectorCleanupStep
    /\ UNCHANGED notDetectorVars

(***************************************************************************)
(* Claims about the wakeword detector                                       *)
(***************************************************************************)
\* C19: a process_frame call with a frame whose length is not the engine's
\* frame length returns False, does not raise, does not pass the frame to the
\* engine and does not call on_wakeword.
C19_WrongLengthRejected ==
    (lastProcess # NoProcess /\ lastProcess.len # FrameLength) =>
        /\ ~lastProcess.ret
        /\ ~lastProcess.raised
        /\ ~lastProcess.engine
        /\ ~lastProcess.callback

\* a frame one sample too long was given to a detector that holds an engine
\* and has a callback
C19_Witness ==
    /\ lastProcess.len = FrameLength + 1
    /\ lastProcess.handle # NoEngine
    /\ porcupine # NoEngine
    /\ on_wakeword
    /\ ~lastProcess.ret

\* C20: no engine is deleted twice; a cleanup() call leaves no engine held,
\* and with no engine held it deletes nothing; a process_frame call made
\* with no engine held returns False and does not reach an engine; process()
\* is never called on a deleted engine.
C20_CleanupOnce ==
    /\ [](\A e \in 1..enginesCreated : Count(deletedLog, e) <= 1)
    /\ [][ cleanupCalls' # cleanupCalls
            => ( /\ porcupine' = NoEngine
                 /\ ~detector_running'
                 /\ (porcupine = NoEngine => deletedLog' = deletedLog)
                 /\ (porcupine # NoEngine => deletedLog' = Append(deletedLog, porcupine)) ) ]_vars
    /\ [](lastProcess.handle = NoEngine
            => (~lastProcess.ret /\ ~lastProcess.raised /\ ~lastProcess.engine))
    /\ [](~usedAfterDelete)

\* cleanup() was called three times on an initialized detector, and a frame
\* of the right length was processed after it
C20_Witness ==
    /\ cleanupCalls = 3
    /\ deletedLog = <<1>>
    /\ porcupine = NoEngine
    /\ lastProcess.handle = NoEngine
    /\ lastProcess.len = FrameLength

InitDetector ==
    /\ porcupine = NoEngine
    /\ detector_running = FALSE
    /\ on_wakeword \in BOOLEAN
    /\ enginesCreated = 0
    /\ deletedLog = <<>>
    /\ cleanupCalls = 0
    /\ lastProcess = NoProcess
    /\ usedAfterDelete = FALSE

NextDetector ==
    \/ DetectorInitialize
    \/ ProcessFrame
    \/ DetectorStart
    \/ DetectorStop
    \/ DetectorCleanup

(***************************************************************************)
(* GeminiLiveClient: the calls its user makes on the session (connect,      *)
(* disconnect, send_audio, receive_responses), with what each call was      *)
(* given and how it ended                                                   *)
(***************************************************************************)
\* Bound of the model
MaxAudioSends == 2

\* live: the client held an open connection when the call was made;
\* connected: _is_connected when the call was made; odd: whether the call is
\* an odd or an even one in the sequence of calls
ClientCall(op, result, reach, setup, live, connected, odd) ==
    [op |-> op, result |-> result, reach |-> reach, setup |-> setup,
     live |-> live, connected |-> connected, odd |-> odd]
NoClientCall == ClientCall("none", "none", FALSE, "none", FALSE, FALSE, FALSE)

\* what the calls made so far have left: no call, no audio, no setup message
\* before the first one
Session ==
    IF session = <<>>
    THEN [lastClientCall |-> NoClientCall, audioSent |-> 0, setupSent |-> <<>>]
    ELSE session[1]
\* the latest connect, disconnect or send_audio call: its inputs and how it ended
lastClientCall == Session.lastClientCall
\* number of audio messages that reached a connection
audioSent == Session.audioSent
\* the tools configuration of the latest setup message
setupSent == Session.setupSent

\* _build_tools_config
BuildToolsConfig(t) == IF t = <<>> THEN <<>> ELSE <<[function_declarations |-> t]>>

\* how connect() ends: at once when already connected, with the exception
\* raised again by its except clause, or normally
ConnectResult(connected, reach, setup) ==
    IF connected THEN "already"
    ELSE IF ConnectRaises(connected, reach, setup) THEN "raised"
    ELSE "returned"

\* connect(), with the setup message _send_setup builds from self._tools
ConnectCall ==
    /\ connCount < MaxConnects
    /\ pcDisconnect = "idle"
    /\ \E reach \in BOOLEAN, setup \in SetupOutcomes :
        /\ ConnectStep(reach, setup)
        /\ session' = <<[Session EXCEPT
                !.lastClientCall = ClientCall("connect",
                                              ConnectResult(is_connected, reach, setup),
                                              reach, setup, ws \in openConns, is_connected,
                                              ~lastClientCall.odd),
                !.setupSent = IF ~is_connected /\ reach THEN BuildToolsConfig(tools)
                              ELSE setupSent]>>
    /\ UNCHANGED notSessionVars

\* send_audio: if not self._is_connected: return; else _send_message, which
\* raises when there is no connection or the connection is closed
SendAudioResult(connected, handle, open) ==
    IF ~connected THEN "dropped" ELSE SendStatus(handle, open)

SendAudioCall ==
    /\ audioSent < MaxAudioSends
    /\ LET r == SendAudioResult(is_connected, ws, openConns)
       IN  session' = <<[Session EXCEPT
                !.lastClientCall = ClientCall("send_audio", r, FALSE, "none",
                                              ws \in openConns, is_connected,
                                              ~lastClientCall.odd),
                !.audioSent = IF r = "sent" THEN audioSent + 1 ELSE audioSent]>>
    /\ UNCHANGED clientVars
    /\ UNCHANGED notSessionVars

\* disconnect(), up to the await of close(), or to its end when the client
\* holds no connection
DisconnectCallClose ==
    /\ DisconnectCloseStep
    /\ session' = <<[Session EXCEPT
            !.lastClientCall = ClientCall("disconnect",
                                          IF ws # NoWs THEN "closing" ELSE "returned",
                                          FALSE, "none", ws \in openConns, is_connected,
                                          ~lastClientCall.odd)]>>
    /\ UNCHANGED notSessionVars

\* disconnect(), after the await of close()
DisconnectCallRelease ==
    /\ DisconnectReleaseStep
    /\ session' = <<[Session EXCEPT !.lastClientCall.result = "returned"]>>
    /\ UNCHANGED notSessionVars

\* receive_responses() is started by the user of the session between its
\* calls of connect() and disconnect()
ReceiveStartCall ==
    /\ pcDisconnect = "idle"
    /\ ReceiveStart

\* C21 (violated): a send_audio call made while the client holds no open
\* connection (never connected, disconnected, or closed by the peer) is
\* dropped: it sends nothing and raises nothing
C21_NotConnectedDropsAudio ==
    (lastClientCall.op = "send_audio" /\ ~lastClientCall.live)
        => lastClientCall.result = "dropped"

\* C23 (violated): the tool definitions of a setup message hold at most one
\* definition for a name
C23_ToolNamesUnique ==
    \A i \in 1..Len(setupSent) :
        \A name \in ToolNames : Count(setupSent[i].function_declarations, name) <= 1

\* C24 (violated): a connect() of a client that is not connected raises
\* exactly when the backend is unreachable or the setup reply is not
\* setupComplete, so that a connect() that returned has a ready session
C24_ConnectFailsOnRejection ==
    (lastClientCall.op = "connect" /\ ~lastClientCall.connected)
        => (lastClientCall.result = "raised"
                <=> (~lastClientCall.reach \/ lastClientCall.setup # "complete"))

\* C25: disconnect() leaves the client not connected, not streaming and
\* without a connection handle; a disconnect() of a client in that state
\* closes nothing, changes nothing and returns at once
C25_DisconnectIdempotent ==
    /\ []((lastClientCall.op = "disconnect" /\ lastClientCall.result = "returned")
            => (~is_connected /\ ~is_streaming /\ ws = NoWs /\ pcDisconnect = "idle"))
    /\ []((lastClientCall.op = "disconnect" /\ lastClientCall.result = "closing")
            => (~is_connected /\ ws \notin openConns))
    /\ [][ (lastClientCall'.op = "disconnect" /\ lastClientCall'.odd # lastClientCall.odd
              /\ ~is_connected /\ ~is_streaming /\ ws = NoWs)
            => (lastClientCall'.result = "returned" /\ UNCHANGED clientVars) ]_vars

\* a second disconnect() after the first closed the connection
C25_Witness ==
    /\ lastClientCall = ClientCall("disconnect", "returned", FALSE, "none", FALSE, FALSE, TRUE)
    /\ connCount = 1
    /\ ws = NoWs
    /\ openConns = {}
    /\ pcRecv = "done"

\* C39 (violated): after a connect() that raised, the client is not
\* connected and holds no open connection
C39_RaisedConnectNotConnected ==
    (lastClientCall.op = "connect" /\ lastClientCall.result = "raised")
        => (~is_connected /\ ws \notin openConns)

InitSession ==
    session = <<>>

NextSession ==
    \/ RegisterTool
    \/ ConnectCall
    \/ SendAudioCall
    \/ DisconnectCallClose
    \/ DisconnectCallRelease
    \/ PeerCloses
    \/ ReceiveStartCall
    \/ ReceiveClosed
    \/ ReceiveOther

(***************************************************************************)
(* GeminiLiveClient (src/src/gemini/client.py): one function call from its  *)
(* handler to its response                                                  *)
(*                                                                          *)
(* A handler is a function from the arguments of the call to what the call  *)
(* does (return a value or raise), written as a plain function or as an     *)
(* `async def` function.  Calling an `async def` function runs nothing: it  *)
(* returns a coroutine object, and the body runs when the object is awaited.*)
(***************************************************************************)
HandlerKinds == {"sync", "async"}
CallArgs == {"Berlin", "Hamburg"}

ToolHandler(kind, fn) == [kind |-> kind, fn |-> fn]
NoHandler == ToolHandler("none", <<>>)
ToolHandlers == {ToolHandler(k, fn) : k \in HandlerKinds, fn \in [CallArgs -> HandlerOutcomes]}

\* the coroutine object as a value: neither a str nor a dict
CoroutineValue == [type |-> "coroutine", str |-> "", int |-> 0, dict |-> NoDict, json |-> TRUE]

\* handler(**args): a plain function runs; an `async def` function returns
\* a coroutine object that has not run yet
HandlerCall(handler, args) ==
    [coroutine |-> handler.kind = "async", outcome |-> handler.fn[args]]

\* `await handler(**args)`: the body runs, the value or the exception is
\* the one of the body
Await(called) == called.outcome

\* `handler(**args)` taken as the result without awaiting it
Unawaited(called) ==
    IF called.coroutine THEN Returned(CoroutineValue) ELSE called.outcome

\* mutant: no handler is taken for a coroutine function
M_NeverCoroutineFunction(handler) == FALSE

\* asyncio.iscoroutinefunction(handler) (line 275)
IsCoroutineFunction(handler) == handler.kind = "async"

\* _handle_tool_call, lines 272-278: the result of the handler, or what it
\* raised
HandlerResult(handler, args) ==
    IF IsCoroutineFunction(handler)
    THEN Await(HandlerCall(handler, args))
    ELSE Unawaited(HandlerCall(handler, args))

RoundTrip(pc, id, name, args, handler) ==
    [pc |-> pc, id |-> id, name |-> name, args |-> args, handler |-> handler]
NoRoundTrip == RoundTrip("idle", 0, "", "", NoHandler)

\* the handler and the latest call: no handler and no call before the first
\* registration or call
Trip ==
    IF roundTrip = <<>>
    THEN [rtHandler |-> NoHandler, rtCall |-> NoRoundTrip, rtResult |-> NoOutcome,
          rtSent |-> <<>>]
    ELSE roundTrip[1]
\* _tool_handlers["get_weather"]: the handler, or none
rtHandler == Trip.rtHandler
\* the latest function call, with the handler it was given to
rtCall == Trip.rtCall
\* what the handler's call produced: `result`, or the exception
rtResult == Trip.rtResult
\* the tool responses sent for the latest function call
rtSent == Trip.rtSent

\* register_tool(name, ..., handler): self._tool_handlers[name] = handler
RegisterHandler ==
    /\ rtCall.pc = "idle"
    /\ \E handler \in ToolHandlers : roundTrip' = <<[Trip EXCEPT !.rtHandler = handler]>>
    /\ UNCHANGED notRoundTripVars

\* _handle_tool_call for one function call, up to the handler's result
HandleToolCall ==
    /\ rtCall.pc = "idle"
    /\ \E id \in 1..MaxCallsTotal, name \in CallNames, args \in CallArgs :
        LET registered == name \in ToolNames /\ rtHandler.kind # "none"
        IN  roundTrip' = <<[Trip EXCEPT
                !.rtCall = RoundTrip("send", id, name, args,
                                     IF registered THEN rtHandler ELSE NoHandler),
                !.rtResult = IF registered THEN HandlerResult(rtHandler, args) ELSE Unknown,
                !.rtSent = <<>>]>>
    /\ UNCHANGED notRoundTripVars

\* await self._send_tool_response(call_id, name, result), or the response
\* of the except or the else branch
SendToolResponse ==
    /\ rtCall.pc = "send"
    /\ roundTrip' = <<[Trip EXCEPT
            !.rtSent = Responses(rtCall.id, rtCall.name,
                                 ResultsToSend([id |-> rtCall.id, name |-> rtCall.name],
                                               rtResult)),
            !.rtCall.pc = "idle"]>>
    /\ UNCHANGED notRoundTripVars

\* C22: the response to a function call with id I and arguments A to a tool
\* registered with handler H, a plain or an `async def` function that
\* returns a value JSON can encode, is one response with id I and the
\* tool's name whose payload is the value H(A) as a JSON object: a dict as
\* it is, a str s as {"result": s}, any other value x as {"result": str(x)}
C22_RoundTrip ==
    (rtCall.pc = "idle" /\ rtCall.handler.kind # "none") =>
        LET h == rtCall.handler.fn[rtCall.args]
        IN  (h.kind = "return" /\ h.value.json) =>
                /\ Len(rtSent) = 1
                /\ rtSent[1].id = rtCall.id
                /\ rtSent[1].name = rtCall.name
                /\ h.value.type = "dict" => rtSent[1].response = h.value.dict
                /\ h.value.type = "str" => rtSent[1].response = Obj("result", h.value.str)
                /\ h.value.type = "int" => rtSent[1].response = Obj("result", Str(h.value.int))

\* an `async def` handler that returns a dict for one city and a number for
\* the other, called with the second id for the city of the number
C22_Witness ==
    /\ rtCall.pc = "idle"
    /\ rtCall.handler.kind = "async"
    /\ rtCall.handler.fn["Berlin"] = Returned(DictValue(Obj("status", "ok"), TRUE))
    /\ rtCall.handler.fn["Hamburg"] = Returned(IntValue(42))
    /\ rtCall.args = "Hamburg"
    /\ rtCall.id = MaxCallsTotal
    /\ rtSent = <<[id |-> MaxCallsTotal, name |-> "get_weather",
                   response |-> Obj("result", "42")]>>

InitRoundTrip ==
    roundTrip = <<>>

NextRoundTrip ==
    \/ RegisterHandler
    \/ HandleToolCall
    \/ SendToolResponse

(***************************************************************************)
(* VoiceAssistant.initialize (src/src/assistant.py): the optional tools     *)
(*                                                                          *)
(* initialize() has no await: the steps below are the statements of one     *)
(* uninterrupted call, taken one tool at a time.  The client the tools are  *)
(* registered with is the one created at line 82, without tools.            *)
(***************************************************************************)
OptionalTools ==
    <<"calendar", "smarthome", "music", "timer", "weather", "news", "websearch", "memory">>

\* created only when config.has_calendar_credentials() / config.smarthome.enabled
ConditionalTools == {"calendar", "smarthome"}

\* get_tool_definitions() of each tool (the names, in order) and the keys
\* of its get_tool_handlers()
CalendarToolDefinitions ==
    <<"get_upcoming_events", "get_events_on_date", "create_event",
      "update_event", "delete_event", "search_events">>
CalendarToolHandlers ==
    {"get_upcoming_events", "get_events_on_date", "create_event",
     "update_event", "delete_event", "search_events"}

SmartHomeToolDefinitions ==
    <<"turn_on_device", "turn_off_device", "set_brightness", "set_color",
      "set_temperature", "get_temperature", "set_blinds", "list_devices",
      "execute_scene">>
SmartHomeToolHandlers ==
    {"turn_on_device", "turn_off_device", "set_brightness", "set_color",
     "set_temperature", "get_temperature", "set_blinds", "list_devices",
     "execute_scene"}

MusicToolDefinitions ==
    <<"play_music", "stop_music", "music_volume", "music_status",
      "play_playlist", "skip_song", "previous_song">>
MusicToolHandlers ==
    {"play_music", "stop_music", "music_volume", "music_status",
     "play_playlist", "skip_song", "previous_song"}

TimerToolDefinitions ==
    <<"set_timer", "stop_timer", "timer_status", "pause_timer",
      "resume_timer", "add_timer_time">>
TimerToolHandlers ==
    {"set_timer", "stop_timer", "timer_status", "pause_timer",
     "resume_timer", "add_timer_time"}

WeatherToolDefinitions ==
    <<"get_weather", "get_weather_forecast">>
WeatherToolHandlers ==
    {"get_weather", "get_weather_forecast"}

NewsToolDefinitions ==
    <<"get_news", "get_news_topic">>
NewsToolHandlers ==
    {"get_news", "get_news_topic"}

WebSearchToolDefinitions ==
    <<"web_search", "web_search_news", "quick_answer">>
WebSearchToolHandlers ==
    {"web_search", "web_search_news", "quick_answer"}

MemoryToolDefinitions ==
    <<"save_memory", "recall_memory", "list_memories", "forget_memory">>
MemoryToolHandlers ==
    {"save_memory", "recall_memory", "list_memories", "forget_memory"}

ToolDefinitions(tool) ==
    CASE tool = "calendar" -> CalendarToolDefinitions
      [] tool = "smarthome" -> SmartHomeToolDefinitions
      [] tool = "music" -> MusicToolDefinitions
      [] tool = "timer" -> TimerToolDefinitions
      [] tool = "weather" -> WeatherToolDefinitions
      [] tool = "news" -> NewsToolDefinitions
      [] tool = "websearch" -> WebSearchToolDefinitions
      [] tool = "memory" -> MemoryToolDefinitions

ToolHandlerNames(tool) ==
    CASE tool = "calendar" -> CalendarToolHandlers
      [] tool = "smarthome" -> SmartHomeToolHandlers
      [] tool = "music" -> MusicToolHandlers
      [] tool = "timer" -> TimerToolHandlers
      [] tool = "weather" -> WeatherToolHandlers
      [] tool = "news" -> NewsToolHandlers
      [] tool = "websearch" -> WebSearchToolHandlers
      [] tool = "memory" -> MemoryToolHandlers

EndConversationTool == "end_conversation"

\* position inside initialize()
pcInit == initialization.pcInit
\* number of optional tools whose block of initialize() is done
toolsDone == initialization.toolsDone
\* the optional tools whose self._x_tool is an object, not None
toolState == initialization.toolState
\* what happened to the optional tools handled so far, in order
initOutcome == initialization.initOutcome

\* what can happen to a tool in initialize(): not created, initialize()
\* returned, initialize() raised
InitOutcomes(tool) ==
    (IF tool \in ConditionalTools THEN {"skipped"} ELSE {}) \cup {"ok", "raised"}

\* mutant: the except branch keeps the tool object
M_FailedToolKept(outcome) == IF outcome = "skipped" THEN "None" ELSE "object"

\* self._x_tool after its block of initialize(): the object, or None when
\* it was not created or initialize() raised (except Exception: ... = None)
ToolAfterInitialize(outcome) == IF outcome = "ok" THEN "object" ELSE "None"

\* for tool_def in tool.get_tool_definitions(): the names that have a handler
DefinitionsWithHandler(tool) ==
    SelectSeq(ToolDefinitions(tool), LAMBDA name : name \in ToolHandlerNames(tool))

\* _register_tools: the names registered for the tools from index i on
RECURSIVE ToolsToRegister(_, _)
ToolsToRegister(i, state) ==
    IF i > Len(OptionalTools) THEN <<EndConversationTool>>
    ELSE (IF OptionalTools[i] \in state
          THEN DefinitionsWithHandler(OptionalTools[i]) ELSE <<>>)
            \o ToolsToRegister(i + 1, state)

\* initialize(), lines 70-82: an invalid configuration or an error of the
\* wakeword engine raises; else the client is created
InitializeStart ==
    /\ pcInit = "start"
    /\ \E valid \in BOOLEAN, detectorOk \in BOOLEAN :
        initialization' = [initialization EXCEPT
            !.pcInit = IF valid /\ detectorOk THEN "tools" ELSE "failed"]
    /\ UNCHANGED notInitializeVars

\* initialize(), lines 84-158: the block of the next optional tool
InitializeTool ==
    /\ pcInit = "tools"
    /\ LET tool == OptionalTools[toolsDone + 1]
       IN  \E outcome \in InitOutcomes(tool) :
            initialization' = [initialization EXCEPT
                !.toolState = IF ToolAfterInitialize(outcome) = "object"
                              THEN toolState \cup {tool} ELSE toolState \ {tool},
                !.initOutcome = Append(initOutcome, outcome),
                !.toolsDone = toolsDone + 1,
                !.pcInit = IF toolsDone + 1 = Len(OptionalTools) THEN "register"
                           ELSE "tools"]
    /\ UNCHANGED notInitializeVars

\* initialize(), lines 160-170: _register_tools() and set_callbacks
RegisterAllTools ==
    /\ pcInit = "register"
    /\ tools' = tools \o ToolsToRegister(1, toolState)
    /\ tool_handlers' = tool_handlers
            \cup {ToolsToRegister(1, toolState)[i] : i \in 1..Len(ToolsToRegister(1, toolState))}
    /\ initialization' = [initialization EXCEPT !.pcInit = "done"]
    /\ UNCHANGED <<ws, is_connected, is_streaming, openConns, connCount, pcDisconnect,
                   pcRecv, curCalls, callIdx, pending, outbox, callLog, callCount>>
    /\ UNCHANGED <<playerVars, handlerVars, assistantVars, detectorVars, sessionVars,
                   roundTripVars, timerVars, sendLoopVars, musicVars>>

ToolSet == {OptionalTools[i] : i \in 1..Len(OptionalTools)}
\* what happened to the tool in its block of initialize()
OutcomeOf(tool) == initOutcome[CHOOSE i \in 1..Len(OptionalTools) : OptionalTools[i] = tool]
DefinitionNames(tool) == {ToolDefinitions(tool)[i] : i \in 1..Len(ToolDefinitions(tool))}
AllToolNames == UNION {DefinitionNames(tool) : tool \in ToolSet} \cup {EndConversationTool}

\* C26: whatever optional tools fail in initialize(), initialize() goes on
\* to its end (it raises only before the first tool: invalid configuration
\* or wakeword engine), and the names registered with the client are, each
\* once, the definitions of the tools whose initialize() returned and
\* end_conversation; no definition of a tool that failed or was not created
\* is registered
C26_GracefulDegradation ==
    /\ [](pcInit = "failed" => toolsDone = 0)
    /\ [](pcInit = "done" =>
            /\ \A name \in AllToolNames :
                Count(tools, name) =
                    (IF \/ name = EndConversationTool
                        \/ \E tool \in ToolSet :
                            OutcomeOf(tool) = "ok" /\ name \in DefinitionNames(tool)
                     THEN 1 ELSE 0)
            /\ \A i \in 1..Len(tools) : tools[i] \in AllToolNames
            /\ tool_handlers = {tools[i] : i \in 1..Len(tools)})
    /\ (pcInit = "tools") ~> (pcInit = "done")

\* initialize() ended although the music player, the weather and the
\* web search failed and no calendar was configured
C26_Witness ==
    /\ pcInit = "done"
    /\ OutcomeOf("calendar") = "skipped"
    /\ OutcomeOf("smarthome") = "ok"
    /\ OutcomeOf("music") = "raised"
    /\ OutcomeOf("timer") = "ok"
    /\ OutcomeOf("weather") = "raised"
    /\ OutcomeOf("news") = "ok"
    /\ OutcomeOf("websearch") = "raised"
    /\ OutcomeOf("memory") = "ok"
    /\ Len(tools) = Len(ToolDefinitions("smarthome")) + Len(ToolDefinitions("timer"))
                    + Len(ToolDefinitions("news")) + Len(ToolDefinitions("memory")) + 1

InitInitialize ==
    initialization = [pcInit |-> "start", toolsDone |-> 0, toolState |-> {},
                      initOutcome |-> <<>>]

NextInitialize ==
    \/ InitializeStart
    \/ InitializeTool
    \/ RegisterAllTools

(***************************************************************************)
(* TimerTool (src/src/tools/timer.py)                                       *)
(*                                                                          *)
(* The registry `_timers` is a dict in insertion order: a sequence of Timer *)
(* records here.  Every statement that touches it runs under `_lock`, so a  *)
(* `with self._lock:` block is one step.  Each set_timer call that gets as  *)
(* far as creating a Timer gives it the next id, and the countdown thread   *)
(* it starts has the same id; a thread knows its timer by name only.        *)
(*                                                                          *)
(* Time is counted in seconds and advances in steps of one minute.  A       *)
(* countdown thread polls every 0.1 s: all the polls that fall inside a     *)
(* minute are part of the step that advances the time, and the polls at the *)
(* instant reached are steps of the threads.                                *)
(***************************************************************************)
\* Bounds of the model
MaxTimers == 2
MaxTimerCalls == 3
MaxMinutes == 8

\* datetime.now(), in seconds
now == timerTool.now
\* _timers: the Timer records, in insertion order
timers == timerTool.timers
\* the countdown threads that are alive, by the id of their timer
threads == timerTool.threads
\* the timers created so far: name, duration, and what became of them
instances == timerTool.instances
\* the alarms fired (_play_alarm calls), in order
alarms == timerTool.alarms
\* the set_timer() calls in progress, with their position
setCall == timerTool.setCall
\* the latest timer_status call and its result (empty: none yet)
lastTimerCall == timerTool.lastTimerCall
\* number of calls of tool functions that were not turned down
timerCalls == timerTool.timerCalls
\* _lock: 0 when it is free between two steps, or the id of the countdown
\* thread that is in time.sleep(0.1) inside its `with self._lock` block
lockHolder == timerTool.lockHolder

TimerNames == {"Eggs", "Pasta"}
\* the arguments (minutes, seconds, hours) of the set_timer calls
SetTimerRequests ==
    { [minutes |-> 0, seconds |-> 0, hours |-> 0],
      [minutes |-> 5, seconds |-> 0, hours |-> 0],
      [minutes |-> 8, seconds |-> 0, hours |-> 0],
      [minutes |-> 0, seconds |-> 0, hours |-> 25] }

\* _parse_duration
ParseDuration(minutes, seconds, hours) == hours * 3600 + minutes * 60 + seconds

\* the instants at which the tool functions are called
CallInstants == {0, ParseDuration(2, 0, 0), ParseDuration(5, 0, 0)}

\* the step of the clock: one minute
TickSeconds == ParseDuration(1, 0, 0)

\* _format_duration
FormatDuration(value) ==
    LET s == IF value > 0 THEN value ELSE 0
    IN  IF s >= 3600
        THEN LET hours == s \div 3600
                 minutes == (s % 3600) \div 60
                 secs == s % 60
             IN  IF secs > 0
                 THEN ToString(hours) \o " Stunden, " \o ToString(minutes)
                        \o " Minuten und " \o ToString(secs) \o " Sekunden"
                 ELSE IF minutes > 0
                 THEN ToString(hours) \o " Stunden und " \o ToString(minutes) \o " Minuten"
                 ELSE ToString(hours) \o " Stunden"
        ELSE IF s >= 60
        THEN LET minutes == s \div 60
                 secs == s % 60
             IN  IF secs > 0
                 THEN ToString(minutes) \o " Minuten und " \o ToString(secs) \o " Sekunden"
                 ELSE ToString(minutes) \o " Minuten"
        ELSE ToString(s) \o " Sekunden"

\* Timer(name, duration_seconds, remaining_seconds, start_time); paused_at
\* and resumed_at record the remaining time at the latest pause_timer and
\* the time of the latest resume_timer (-1: none)
NewTimer(id, name, total, time) ==
    [id |-> id, name |-> name, duration_seconds |-> total, remaining_seconds |-> total,
     start_time |-> time, is_running |-> TRUE, is_paused |-> FALSE,
     paused_remaining |-> -1, resumed_at |-> -1]

HasTimer(ts, name) == \E i \in 1..Len(ts) : ts[i].name = name
TimerIndex(ts, name) == CHOOSE i \in 1..Len(ts) : ts[i].name = name
GetTimer(ts, name) == ts[TimerIndex(ts, name)]
\* self._timers[name] = timer: a new key goes to the end, an existing key
\* keeps its place
PutTimer(ts, timer) ==
    IF HasTimer(ts, timer.name)
    THEN [ts EXCEPT ![TimerIndex(ts, timer.name)] = timer]
    ELSE Append(ts, timer)
\* del self._timers[name] / self._timers.pop(name)
RemoveTimer(ts, name) == SelectSeq(ts, LAMBDA t : t.name # name)
TimerIds(ts) == {ts[i].id : i \in 1..Len(ts)}

\* _generate_timer_name: "Timer <count>", count from len + 1 upwards
RECURSIVE GenerateFrom(_, _)
GenerateFrom(ts, count) ==
    IF HasTimer(ts, "Timer " \o ToString(count))
    THEN GenerateFrom(ts, count + 1)
    ELSE "Timer " \o ToString(count)
GenerateTimerName(ts) == GenerateFrom(ts, Len(ts) + 1)

\* timer.duration_seconds - elapsed at the given time
RemainingAt(timer, time) == timer.duration_seconds - (time - timer.start_time)

\* mutant: a timer expires only when its remaining time is below zero
M_ExpiredLate(timer, time) == RemainingAt(timer, time) < 0

\* _timer_thread, line 134: if timer.remaining_seconds <= 0
Expired(timer, time) == RemainingAt(timer, time) <= 0

\* mutant: an expired timer stays in the registry
M_ExpiredTimerKept(ts, name) ==
    [ts EXCEPT ![TimerIndex(ts, name)].is_running = FALSE,
               ![TimerIndex(ts, name)].remaining_seconds = 0]

\* _timer_thread, lines 136-137: timer.is_running = False; del self._timers[name]
AfterExpiry(ts, name) == RemoveTimer(ts, name)

\* pause_timer, lines 335-338
PauseEffect(timer, time) ==
    [timer EXCEPT !.is_paused = TRUE,
                  !.remaining_seconds = RemainingAt(timer, time),
                  !.paused_remaining = RemainingAt(timer, time)]

\* mutant: resume_timer does not re-base the start time
M_ResumeKeepsStart(timer, time) ==
    [timer EXCEPT !.is_paused = FALSE, !.resumed_at = time]

\* resume_timer, lines 370-373
ResumeEffect(timer, time) ==
    [timer EXCEPT !.is_paused = FALSE,
                  !.start_time = time,
                  !.duration_seconds = timer.remaining_seconds,
                  !.resumed_at = time]

\* name if name else (the only timer's name if there is one timer, else "")
DefaultTimerName(ts, name) ==
    IF name # "" THEN name ELSE IF Len(ts) = 1 THEN ts[1].name ELSE ""

\* a call and what it returned; at and alarms: the time of the call and the
\* number of alarms fired before it
TimerCall(op, name, result, statuses, at, fired) ==
    [op |-> op, name |-> name, result |-> result, statuses |-> statuses, at |-> at,
     alarms |-> fired]

Callers == {1, 2}
\* a set_timer call that has passed its check and has not returned yet
SetCall(c, pc, name, total, id) ==
    [caller |-> c, pc |-> pc, name |-> name, total |-> total, id |-> id]
InSetTimer(c) == \E call \in setCall : call.caller = c
CallOf(c) == CHOOSE call \in setCall : call.caller = c
NoCallInProgress == setCall = {}

\* the timers created so far, by id
Created == 1..Len(instances)

Instance(name, state, created_at, total) ==
    [name |-> name, state |-> state, created_at |-> created_at, total |-> total]

\* the instances a stop, an expiry or a clear() takes out of the registry
EndInstances(ids, state) ==
    [i \in Created |->
        IF i \in ids THEN [instances[i] EXCEPT !.state = state] ELSE instances[i]]

\* what a call reports about a timer
TimerStatus(timer) ==
    [name |-> timer.name, remaining |-> FormatDuration(timer.remaining_seconds),
     is_paused |-> timer.is_paused]
TimerStatuses(ts) == [i \in 1..Len(ts) |-> TimerStatus(ts[i])]

CallResult(op, name, result, statuses) ==
    TimerCall(op, name, result, statuses, now, Len(alarms))

\* set_timer, lines 197-210: the duration is checked, the name is taken or
\* generated, and the registry is looked up under the lock; a call that is
\* turned down returns its message and changes nothing
SetTimerCheck(c) ==
    /\ now \in CallInstants
    /\ ~InSetTimer(c)
    /\ timerCalls < MaxTimerCalls
    /\ \E req \in SetTimerRequests, name \in {""} \cup TimerNames :
        LET total_seconds == ParseDuration(req.minutes, req.seconds, req.hours)
            timer_name == IF name # "" THEN name ELSE GenerateTimerName(timers)
        IN  IF \/ total_seconds <= 0
               \/ total_seconds > 24 * 3600
               \/ HasTimer(timers, timer_name)
            THEN UNCHANGED timerTool
            ELSE /\ Len(instances) + Cardinality({call \in setCall : call.pc = "checked"})
                        < MaxTimers
                 /\ timerTool' = [timerTool EXCEPT
                        !.setCall = setCall \cup {SetCall(c, "checked", timer_name,
                                                          total_seconds, 0)},
                        !.timerCalls = timerCalls + 1]
    /\ UNCHANGED notTimerVars

\* set_timer, lines 213-221: the Timer is created and stored under the lock
SetTimerInsert(c) ==
    /\ InSetTimer(c)
    /\ CallOf(c).pc = "checked"
    /\ LET id == Len(instances) + 1
           timer == NewTimer(id, CallOf(c).name, CallOf(c).total, now)
       IN  timerTool' = [timerTool EXCEPT
                !.timers = PutTimer(timers, timer),
                !.instances = Append(instances, Instance(timer.name, "active", now,
                                                         timer.duration_seconds)),
                !.setCall = (setCall \ {CallOf(c)})
                                \cup {[CallOf(c) EXCEPT !.pc = "inserted", !.id = id]}]
    /\ UNCHANGED notTimerVars

\* set_timer, lines 224-231: the countdown thread is started
SetTimerStart(c) ==
    /\ InSetTimer(c)
    /\ CallOf(c).pc = "inserted"
    /\ timerTool' = [timerTool EXCEPT !.threads = threads \cup {CallOf(c).id},
                                      !.setCall = setCall \ {CallOf(c)}]
    /\ UNCHANGED notTimerVars

\* a call of the event-loop thread that runs in one block under the lock
TimerApiCall ==
    /\ now \in CallInstants
    /\ NoCallInProgress
    /\ timerCalls < MaxTimerCalls
    /\ UNCHANGED notTimerVars

\* stop_timer(name): the named timer, the only timer, or all timers; a call
\* that finds no timer returns its message and changes nothing
StopTimer ==
    /\ TimerApiCall
    /\ \E name \in {""} \cup TimerNames :
        IF timers = <<>> \/ (name # "" /\ ~HasTimer(timers, name))
        THEN UNCHANGED timerTool
        ELSE IF name # "" \/ Len(timers) = 1
        THEN LET timer_name == IF name # "" THEN name ELSE timers[1].name
             IN  timerTool' = [timerTool EXCEPT
                    !.timers = RemoveTimer(timers, timer_name),
                    !.instances = EndInstances({GetTimer(timers, timer_name).id}, "stopped"),
                    !.timerCalls = timerCalls + 1]
        ELSE timerTool' = [timerTool EXCEPT
                !.timers = <<>>,
                !.instances = EndInstances(TimerIds(timers), "stopped"),
                !.timerCalls = timerCalls + 1]

\* timer_status(name)
GetTimerStatus ==
    /\ TimerApiCall
    /\ \E name \in {""} \cup TimerNames :
        timerTool' = [timerTool EXCEPT
            !.lastTimerCall =
                IF timers = <<>> THEN <<CallResult("timer_status", name, "no timer", <<>>)>>
                ELSE IF name # "" /\ ~HasTimer(timers, name)
                THEN <<CallResult("timer_status", name, "not found", <<>>)>>
                ELSE IF name # ""
                THEN <<CallResult("timer_status", name, "one",
                                  <<TimerStatus(GetTimer(timers, name))>>)>>
                ELSE <<CallResult("timer_status", name, "all", TimerStatuses(timers))>>,
            !.timerCalls = timerCalls + 1]

\* pause_timer(name): a call that finds no timer to pause returns its message
\* and changes nothing
PauseTimer ==
    /\ TimerApiCall
    /\ \E name \in {""} \cup TimerNames :
        LET timer_name == DefaultTimerName(timers, name)
        IN  IF \/ timers = <<>>
               \/ timer_name = ""
               \/ ~HasTimer(timers, timer_name)
               \/ GetTimer(timers, timer_name).is_paused
            THEN UNCHANGED timerTool
            ELSE timerTool' = [timerTool EXCEPT
                    !.timers = PutTimer(timers, PauseEffect(GetTimer(timers, timer_name), now)),
                    !.timerCalls = timerCalls + 1]

\* resume_timer(name): a call that finds no timer to resume returns its
\* message and changes nothing
ResumeTimer ==
    /\ TimerApiCall
    /\ \E name \in {""} \cup TimerNames :
        LET timer_name == DefaultTimerName(timers, name)
        IN  IF \/ timers = <<>>
               \/ timer_name = ""
               \/ ~HasTimer(timers, timer_name)
               \/ ~GetTimer(timers, timer_name).is_paused
            THEN UNCHANGED timerTool
            ELSE timerTool' = [timerTool EXCEPT
                    !.timers = PutTimer(timers, ResumeEffect(GetTimer(timers, timer_name), now)),
                    !.timerCalls = timerCalls + 1]

\* _timer_thread: one pass of the loop of thread tid, under the lock; the
\* pass that finds the timer expired removes it and goes on to _play_alarm
TimerThreadPoll(tid) ==
    /\ tid \in threads
    /\ LET name == instances[tid].name
           ended == [timerTool EXCEPT !.threads = threads \ {tid}]
       IN  IF ~HasTimer(timers, name)
           THEN timerTool' = ended
           ELSE LET timer == GetTimer(timers, name)
                    polled == [timer EXCEPT !.remaining_seconds = RemainingAt(timer, now)]
                IN  IF ~timer.is_running
                    THEN timerTool' = ended
                    ELSE IF timer.is_paused
                    THEN UNCHANGED timerTool
                    ELSE IF Expired(timer, now)
                    THEN timerTool' = [ended EXCEPT
                            !.timers = AfterExpiry(PutTimer(timers, polled), name),
                            !.alarms = Append(alarms, [timer |-> polled, thread |-> tid,
                                                       at |-> now]),
                            !.instances = EndInstances({timer.id}, "fired")]
                    ELSE timerTool' = [timerTool EXCEPT !.timers = PutTimer(timers, polled)]
    /\ UNCHANGED notTimerVars

\* no pass of a live countdown thread would end the thread or the timer
ThreadsCaughtUp ==
    \A tid \in threads :
            /\ HasTimer(timers, instances[tid].name)
            /\ LET timer == GetTimer(timers, instances[tid].name)
               IN  timer.is_running /\ (timer.is_paused \/ ~Expired(timer, now))

\* a minute passes: the countdown threads make their passes, none of which
\* finds a timer expired before the end of the minute
TimerTick ==
    /\ NoCallInProgress
    /\ now < ParseDuration(MaxMinutes, 0, 0)
    /\ ThreadsCaughtUp
    /\ timerTool' = [timerTool EXCEPT
            !.now = now + TickSeconds,
            !.timers = [i \in 1..Len(timers) |->
                            IF timers[i].is_paused \/ ~timers[i].is_running THEN timers[i]
                            ELSE [timers[i] EXCEPT
                                    !.remaining_seconds =
                                        RemainingAt(timers[i], now + TickSeconds)]]]
    /\ UNCHANGED notTimerVars

InitTimer ==
    timerTool = [now |-> 0, timers |-> <<>>, threads |-> {}, instances |-> <<>>,
                 alarms |-> <<>>, setCall |-> {}, lastTimerCall |-> <<>>, timerCalls |-> 0,
                 lockHolder |-> 0]

\* the tool handlers are called by the one event-loop thread, one call at a
\* time (client.py, line 278), next to the countdown threads
EventLoopCaller == 1

NextTimer ==
    \/ SetTimerCheck(EventLoopCaller)
    \/ SetTimerInsert(EventLoopCaller)
    \/ SetTimerStart(EventLoopCaller)
    \/ StopTimer
    \/ GetTimerStatus
    \/ PauseTimer
    \/ ResumeTimer
    \/ \E tid \in 1..MaxTimers : TimerThreadPoll(tid)
    \/ TimerTick

\* set_timer called from several threads at once
NextTimerRace ==
    \/ \E c \in Callers : SetTimerCheck(c)
    \/ \E c \in Callers : SetTimerInsert(c)
    \/ \E c \in Callers : SetTimerStart(c)
    \/ \E tid \in 1..MaxTimers : TimerThreadPoll(tid)

\* C27 (violated): a timer that set_timer has stored stays in the registry
\* until it is stopped or expires: no later set_timer call for its name
\* replaces it
C27_CollisionRejected ==
    \A i \in Created : instances[i].state = "active" => i \in TimerIds(timers)

Fired(i) == {k \in 1..Len(alarms) : alarms[k].timer.id = i}

\* a timer of the registry is running, not paused, and its time is up
TimerDue ==
    \E i \in 1..Len(timers) :
        timers[i].is_running /\ ~timers[i].is_paused /\ Expired(timers[i], now)

C29_PauseFreezes ==
    /\ [][\A i \in Created :
            (/\ i \in TimerIds(timers)
             /\ GetTimer(timers, instances[i].name).is_paused) =>
                /\ instances'[i].state # "fired"
                /\ (i \in TimerIds(timers') /\ GetTimer(timers', instances[i].name).is_paused) =>
                        GetTimer(timers', instances[i].name).remaining_seconds
                            = GetTimer(timers, instances[i].name).remaining_seconds]_vars
    /\ [](\A k \in 1..Len(alarms) :
            alarms[k].timer.resumed_at >= 0 =>
                alarms[k].at = alarms[k].timer.resumed_at
                    + (IF alarms[k].timer.paused_remaining > 0
                       THEN alarms[k].timer.paused_remaining ELSE 0))
    /\ [](\A i \in 1..Len(timers) :
            (timers[i].is_running /\ ~timers[i].is_paused) => RemainingAt(timers[i], now) >= 0)

\* a timer of five minutes, paused with three minutes left, resumed later
\* than that and fired three minutes after the resume, after the time it
\* was first due
C29_Witness ==
    /\ Len(alarms) = 1
    /\ instances[alarms[1].timer.id].total = ParseDuration(5, 0, 0)
    /\ alarms[1].timer.paused_remaining = ParseDuration(3, 0, 0)
    /\ alarms[1].timer.resumed_at > instances[alarms[1].timer.id].created_at
    /\ alarms[1].at = alarms[1].timer.resumed_at + ParseDuration(3, 0, 0)
    /\ alarms[1].at > instances[alarms[1].timer.id].created_at + ParseDuration(5, 0, 0)

\* "Eggs" (5 minutes) and "Pasta" (8 minutes) set at time 0, neither paused
\* nor stopped
EggsAndPasta ==
    /\ Created = {1, 2}
    /\ instances[1].name = "Eggs"
    /\ instances[1].total = ParseDuration(5, 0, 0)
    /\ instances[1].created_at = 0
    /\ instances[1].state \in {"active", "fired"}
    /\ instances[2].name = "Pasta"
    /\ instances[2].total = ParseDuration(8, 0, 0)
    /\ instances[2].created_at = 0
    /\ instances[2].state \in {"active", "fired"}
    /\ \A i \in 1..Len(timers) : timers[i].paused_remaining < 0
    /\ \A k \in 1..Len(alarms) : alarms[k].timer.paused_remaining < 0

\* C30: the step in which one timer expires changes no other timer of the
\* registry.  With "Eggs" (5 minutes) and "Pasta" (8 minutes) set together,
\* once the countdown threads have made their pass at minute 5 "Eggs" has
\* fired, at minute 5 and not before, and is out of the registry, "Pasta"
\* is in it, and a timer_status() made then reports "Pasta" alone, running,
\* with "3 Minuten"
C30_TimersIndependent ==
    /\ [][\A i \in Created :
            (instances[i].state = "active" /\ instances'[i].state = "fired") =>
                \A j \in 1..Len(timers) :
                    timers[j].id # i =>
                        \E k \in 1..Len(timers') : timers'[k] = timers[j]]_vars
    /\ []((EggsAndPasta /\ now < ParseDuration(5, 0, 0)) =>
            (alarms = <<>> /\ TimerIds(timers) = {1, 2}))
    /\ []((EggsAndPasta /\ now = ParseDuration(5, 0, 0) /\ ThreadsCaughtUp
                /\ NoCallInProgress) =>
            /\ Len(alarms) = 1
            /\ alarms[1].timer.id = 1
            /\ alarms[1].at = ParseDuration(5, 0, 0)
            /\ TimerIds(timers) = {2}
            /\ timers[1].remaining_seconds = ParseDuration(3, 0, 0))
    /\ []((/\ EggsAndPasta
           /\ lastTimerCall # <<>>
           /\ lastTimerCall[1].name = ""
           /\ lastTimerCall[1].at = ParseDuration(5, 0, 0)
           /\ lastTimerCall[1].alarms = 1) =>
            lastTimerCall[1].statuses
                = <<[name |-> "Pasta", remaining |-> "3 Minuten", is_paused |-> FALSE]>>)

\* the two timers were set at time 0, timer_status() was called at minute 5
\* after the alarm of "Eggs", and "Pasta" fired at minute 8
C30_Witness ==
    /\ EggsAndPasta
    /\ now = ParseDuration(8, 0, 0)
    /\ lastTimerCall # <<>>
    /\ lastTimerCall[1].at = ParseDuration(5, 0, 0)
    /\ lastTimerCall[1].alarms = 1
    /\ Len(lastTimerCall[1].statuses) = 1
    /\ Len(alarms) = 2
    /\ alarms[1].timer.name = "Eggs"
    /\ alarms[2].timer.name = "Pasta"
    /\ alarms[2].at = ParseDuration(8, 0, 0)
    /\ timers = <<>>

\* Bound of the model: the minutes an add_time call adds
MaxAddMinutes == 2

\* add_time, line 409: timer.duration_seconds += additional_seconds
AddTimeEffect(timer, additional_seconds) ==
    [timer EXCEPT !.duration_seconds = timer.duration_seconds + additional_seconds]

\* add_time(minutes, seconds, name): a call with nothing to add or that finds
\* no timer returns its message and changes nothing
AddTime ==
    /\ TimerApiCall
    /\ \E minutes \in 0..MaxAddMinutes, name \in {""} \cup TimerNames :
        LET additional_seconds == ParseDuration(minutes, 0, 0)
            timer_name == DefaultTimerName(timers, name)
        IN  IF \/ additional_seconds <= 0
               \/ timers = <<>>
               \/ timer_name = ""
               \/ ~HasTimer(timers, timer_name)
            THEN UNCHANGED timerTool
            ELSE timerTool' = [timerTool EXCEPT
                    !.timers = PutTimer(timers, AddTimeEffect(GetTimer(timers, timer_name),
                                                              additional_seconds)),
                    !.timerCalls = timerCalls + 1]

\* mutant: cleanup leaves the timers in the registry
M_ClearKeepsTimers(ts) == ts

\* cleanup, line 535: self._timers.clear()
ClearTimers(ts) == <<>>

\* cleanup(): every timer is marked as not running and the registry is
\* emptied, in one block under the lock
TimerCleanup ==
    /\ TimerApiCall
    /\ timers # <<>>
    /\ timerTool' = [timerTool EXCEPT
            !.timers = ClearTimers(timers),
            !.instances = EndInstances(TimerIds(timers), "stopped"),
            !.timerCalls = timerCalls + 1]

\* _timer_thread, lines 117-128: the pass of thread tid that finds its timer
\* paused calls time.sleep(0.1) inside the `with self._lock` block
TimerThreadPausedSleep(tid) ==
    /\ tid \in threads
    /\ lockHolder = 0
    /\ HasTimer(timers, instances[tid].name)
    /\ GetTimer(timers, instances[tid].name).is_running
    /\ GetTimer(timers, instances[tid].name).is_paused
    /\ timerTool' = [timerTool EXCEPT !.lockHolder = tid]
    /\ UNCHANGED notTimerVars

\* _timer_thread, lines 127-128: the sleep returns, `continue` leaves the
\* `with` block and the lock is released
TimerThreadPausedContinue(tid) ==
    /\ lockHolder = tid
    /\ timerTool' = [timerTool EXCEPT !.lockHolder = 0]
    /\ UNCHANGED notTimerVars

\* every block under the lock waits for the thread that sleeps inside it
NextTimerLock ==
    \/ lockHolder = 0 /\ SetTimerCheck(EventLoopCaller)
    \/ lockHolder = 0 /\ SetTimerInsert(EventLoopCaller)
    \/ lockHolder = 0 /\ SetTimerStart(EventLoopCaller)
    \/ lockHolder = 0 /\ StopTimer
    \/ lockHolder = 0 /\ GetTimerStatus
    \/ lockHolder = 0 /\ PauseTimer
    \/ lockHolder = 0 /\ ResumeTimer
    \/ lockHolder = 0 /\ AddTime
    \/ lockHolder = 0 /\ TimerCleanup
    \/ \E tid \in 1..MaxTimers : lockHolder = 0 /\ TimerThreadPoll(tid)
    \/ \E tid \in 1..MaxTimers : TimerThreadPausedSleep(tid)
    \/ \E tid \in 1..MaxTimers : TimerThreadPausedContinue(tid)
    \/ lockHolder = 0 /\ TimerTick

\* C35 (violated): no countdown thread is in a sleep while it holds the
\* lock of the registry
C35_LockNotHeldAcrossSleep ==
    lockHolder = 0

\* the time a timer has left: for a paused timer the time it will run for
\* when resume_timer is called, for a running timer the time until it is due
TimeLeft(timer, time) ==
    IF timer.is_paused
    THEN ResumeEffect(timer, time).duration_seconds
    ELSE RemainingAt(timer, time)

\* C37 (violated): an add_time call that adds k seconds to a timer, running
\* or paused, makes the time the timer has left k seconds longer
C37_AddTimePostponesExpiry ==
    [][\A i \in 1..Len(timers) :
        (/\ Len(timers') = Len(timers)
         /\ timers'[i].id = timers[i].id
         /\ timers'[i].is_paused = timers[i].is_paused
         /\ timers'[i].duration_seconds # timers[i].duration_seconds) =>
            TimeLeft(timers'[i], now')
                = TimeLeft(timers[i], now)
                    + (timers'[i].duration_seconds - timers[i].duration_seconds)]_vars

\* C40: a timer that stop_timer or cleanup has taken out of the registry
\* stays out of it and no alarm is ever fired for it; the pass of a
\* countdown thread that finds the name of its timer gone ends the thread
\* and fires nothing; and an alarm fired by the thread of a removed timer is
\* the alarm of a timer of the same name that was set after it
C40_RemovedTimerNeverFires ==
    /\ [](\A i \in Created :
            instances[i].state = "stopped" => (i \notin TimerIds(timers) /\ Fired(i) = {}))
    /\ [][\A i \in Created :
            instances[i].state = "stopped" => instances'[i].state = "stopped"]_vars
    /\ [][\A tid \in threads :
            (tid \notin threads' /\ ~HasTimer(timers, instances[tid].name)) =>
                (alarms' = alarms /\ timers' = timers)]_vars
    /\ [](\A k \in 1..Len(alarms) :
            /\ alarms[k].timer.id >= alarms[k].thread
            /\ alarms[k].timer.name = instances[alarms[k].thread].name)

\* a timer was stopped at the instant it was due, before the pass of its
\* thread; the thread has ended and no alarm was fired
C40_Witness ==
    /\ Created = {1}
    /\ instances[1].state = "stopped"
    /\ now = instances[1].created_at + instances[1].total
    /\ threads = {}
    /\ alarms = <<>>

(***************************************************************************)
(* MusicTool (src/src/tools/music.py)                                       *)
(*                                                                          *)
(* The tool functions are called by the event-loop thread, one call at a    *)
(* time.  Every player process that _play_audio_url starts gets a monitor   *)
(* thread, which waits for the end of the process and then plays the next   *)
(* song of the playlist.  MusicTool has no lock: the steps of a call and of *)
(* the monitor threads interleave between any two of the statements below.  *)
(* A song is its place in the search result; a player process is the number *)
(* of the Popen call that started it.  _current_title, _playlist_name and   *)
(* _volume take no part in what is checked and are left out.                *)
(***************************************************************************)
\* Bounds of the model
MaxSongs == 3
MaxMusicCalls == 3
MaxPopens == 3

\* _playlist: the songs, in order
playlist == musicTool.playlist
\* _playlist_index
playlist_index == musicTool.playlist_index
\* _process: the tracked player process (0: None)
process == musicTool.process
\* MusicTool._is_playing
music_playing == musicTool.is_playing
\* the mpv/ffplay processes that are alive
players == musicTool.players
\* number of Popen calls made so far
popens == musicTool.popens
\* the call in progress (thread 0) and the monitor threads, with their position
musicThreads == musicTool.threads
\* the latest tool function that has returned (empty: none yet)
lastMusicCall == musicTool.lastMusicCall
\* number of calls of tool functions
musicCalls == musicTool.musicCalls

\* the thread of the tool functions
MusicCaller == 0

\* a thread: for a monitor, tid is the process it was started for and
\* waits_for the process it waits on; for a call, index_before and
\* popens_before are the cursor and the number of Popen calls when it began
MusicThread(tid, op, pc, waits_for, song, index_before, popens_before) ==
    [tid |-> tid, op |-> op, pc |-> pc, waits_for |-> waits_for, song |-> song,
     index_before |-> index_before, popens_before |-> popens_before]
Monitor(pid) == MusicThread(pid, "monitor", "start", 0, 0, 0, 0)
MusicCall(op, pc) == MusicThread(MusicCaller, op, pc, 0, 0, playlist_index, popens)

InMusicCall == \E th \in musicThreads : th.tid = MusicCaller
MusicThreadAt(th, pc) == [th EXCEPT !.pc = pc]

\* what a call returned: ok is its success
MusicReturn(th, ok, mt) ==
    [op |-> th.op, ok |-> ok, index_before |-> th.index_before,
     index_after |-> mt.playlist_index,
     popens_before |-> th.popens_before, popens_after |-> mt.popens]

\* a thread has come to the end of its function: a monitor thread ends, a
\* call returns; mt is the state the thread leaves behind
MusicThreadEnds(th, ok, mt) ==
    IF th.tid = MusicCaller
    THEN [mt EXCEPT !.threads = (mt.threads \ {th}),
                    !.lastMusicCall = <<MusicReturn(th, ok, mt)>>]
    ELSE [mt EXCEPT !.threads = (mt.threads \ {th})]

\* a tool function is called
MusicApiCall ==
    /\ ~InMusicCall
    /\ musicCalls < MaxMusicCalls
    /\ UNCHANGED notMusicVars

\* play_playlist, lines 440-457: the playlist is built from the songs
\* selected, the cursor is set to 0 and _play_next_in_playlist is called
PlayPlaylist ==
    /\ MusicApiCall
    /\ \E count \in 1..MaxSongs :
        musicTool' = [musicTool EXCEPT
            !.playlist = [i \in 1..count |-> i],
            !.playlist_index = 0,
            !.threads = musicThreads \cup {MusicCall("play_playlist", "next")},
            !.musicCalls = musicCalls + 1]

\* _kill_all_players, lines 525-540: every mpv/ffplay process is killed
KillAllPlayers(ps) == {}

\* skip_song (delta 1) and previous_song (delta -1), lines 486-493 and
\* 508-515: a call without playlist or at the end of it returns its
\* message; otherwise all players are killed
SkipOrPrevious(op, delta) ==
    /\ MusicApiCall
    /\ LET th == MusicCall(op, "move")
           called == [musicTool EXCEPT !.musicCalls = musicCalls + 1]
       IN  IF \/ playlist = <<>>
              \/ (delta = 1 /\ playlist_index >= Len(playlist) - 1)
              \/ (delta = -1 /\ playlist_index <= 0)
           THEN musicTool' = MusicThreadEnds(MusicThreadAt(th, "refused"), FALSE, called)
           ELSE musicTool' = [called EXCEPT !.players = KillAllPlayers(players),
                                            !.threads = musicThreads \cup {th}]

SkipSong == SkipOrPrevious("skip_song", 1)

PreviousSong == SkipOrPrevious("previous_song", -1)

\* skip_song, line 494, and previous_song, line 516: the cursor is moved
MoveCursor ==
    /\ \E th \in musicThreads :
        /\ th.pc = "move"
        /\ musicTool' = [musicTool EXCEPT
                !.playlist_index = playlist_index
                                    + (IF th.op = "skip_song" THEN 1 ELSE -1),
                !.threads = (musicThreads \ {th}) \cup {MusicThreadAt(th, "next")}]
    /\ UNCHANGED notMusicVars

\* _play_next_in_playlist, lines 464-475: without a playlist or with the
\* cursor beyond it the function returns False; otherwise the song at the
\* cursor is taken and _get_audio_url is called, which gives the URL or None
PlayNextInPlaylist(tid) ==
    /\ \E th \in musicThreads :
        /\ th.tid = tid
        /\ th.pc = "next"
        /\ IF playlist = <<>> \/ playlist_index >= Len(playlist)
           THEN musicTool' = MusicThreadEnds(th, FALSE, musicTool)
           ELSE \E found \in BOOLEAN :
                   IF found
                   THEN musicTool' = [musicTool EXCEPT
                            !.threads = (musicThreads \ {th})
                                \cup {[th EXCEPT !.pc = "kill",
                                                 !.song = playlist[playlist_index + 1]]}]
                   ELSE musicTool' = MusicThreadEnds(th, FALSE, musicTool)
    /\ UNCHANGED notMusicVars

\* _play_audio_url, lines 254-256, once _get_audio_url has returned: all
\* players are killed
PlayAudioUrlKill(tid) ==
    /\ \E th \in musicThreads :
        /\ th.tid = tid
        /\ th.pc = "kill"
        /\ musicTool' = [musicTool EXCEPT
                !.players = KillAllPlayers(players),
                !.process = 0,
                !.is_playing = FALSE,
                !.threads = (musicThreads \ {th}) \cup {MusicThreadAt(th, "popen")}]
    /\ UNCHANGED notMusicVars

\* _play_audio_url, lines 277-306: the player is started and its monitor
\* thread with it
PlayAudioUrlPopen(tid) ==
    /\ popens < MaxPopens
    /\ \E th \in musicThreads :
        /\ th.tid = tid
        /\ th.pc = "popen"
        /\ LET pid == popens + 1
               playing == [musicTool EXCEPT
                    !.players = players \cup {pid},
                    !.popens = pid,
                    !.process = pid,
                    !.is_playing = TRUE,
                    !.threads = musicThreads \cup {Monitor(pid)}]
           IN  musicTool' = MusicThreadEnds(th, TRUE, playing)
    /\ UNCHANGED notMusicVars

\* monitor, lines 291-292: `if self._process:` reads the process that is
\* tracked when the thread gets to run, and the thread waits for it
MonitorStart(tid) ==
    /\ \E th \in musicThreads :
        /\ th.tid = tid
        /\ th.pc = "start"
        /\ IF process = 0
           THEN musicTool' = MusicThreadEnds(th, TRUE, musicTool)
           ELSE musicTool' = [musicTool EXCEPT
                    !.threads = (musicThreads \ {th})
                        \cup {[th EXCEPT !.pc = "wait", !.waits_for = process]}]
    /\ UNCHANGED notMusicVars

\* monitor, line 297: self._auto_next and self._playlist and
\* self._playlist_index < len(self._playlist) - 1
AutoNext(len, index) == len > 0 /\ index < len - 1

\* monitor, lines 292-301: the process has ended; the next song of the
\* playlist, if there is one, is played
MonitorWaitReturns(tid) ==
    /\ \E th \in musicThreads :
        /\ th.tid = tid
        /\ th.pc = "wait"
        /\ th.waits_for \notin players
        /\ IF AutoNext(Len(playlist), playlist_index)
           THEN musicTool' = [musicTool EXCEPT
                    !.is_playing = FALSE,
                    !.playlist_index = playlist_index + 1,
                    !.threads = (musicThreads \ {th}) \cup {MusicThreadAt(th, "next")}]
           ELSE musicTool' = MusicThreadEnds(th, TRUE, [musicTool EXCEPT !.is_playing = FALSE])
    /\ UNCHANGED notMusicVars

\* the song has come to its end: the player process exits
PlayerExits ==
    /\ \E pid \in players :
        musicTool' = [musicTool EXCEPT !.players = players \ {pid}]
    /\ UNCHANGED notMusicVars

\* stop, lines 550-566: the tracked process is terminated and waited for,
\* then all players are killed
StopKill ==
    /\ MusicApiCall
    /\ musicTool' = [musicTool EXCEPT
            !.process = 0,
            !.players = KillAllPlayers(players \ {process}),
            !.threads = musicThreads \cup {MusicCall("stop", "clear")},
            !.musicCalls = musicCalls + 1]

\* stop, lines 568-584: the playing flag and the playlist are cleared and
\* the call returns
StopClear ==
    /\ \E th \in musicThreads :
        /\ th.pc = "clear"
        /\ musicTool' = MusicThreadEnds(th, TRUE,
                [musicTool EXCEPT !.is_playing = FALSE,
                                  !.playlist = <<>>,
                                  !.playlist_index = 0])
    /\ UNCHANGED notMusicVars

InitMusic ==
    musicTool = [playlist |-> <<>>, playlist_index |-> 0, process |-> 0,
                 is_playing |-> FALSE, players |-> {}, popens |-> 0, threads |-> {},
                 lastMusicCall |-> <<>>, musicCalls |-> 0]

NextMusic ==
    \/ PlayPlaylist
    \/ SkipSong
    \/ PreviousSong
    \/ MoveCursor
    \/ \E tid \in 0..MaxPopens : PlayNextInPlaylist(tid)
    \/ \E tid \in 0..MaxPopens : PlayAudioUrlKill(tid)
    \/ \E tid \in 0..MaxPopens : PlayAudioUrlPopen(tid)
    \/ \E tid \in 1..MaxPopens : MonitorStart(tid)
    \/ \E tid \in 1..MaxPopens : MonitorWaitReturns(tid)
    \/ PlayerExits
    \/ StopKill
    \/ StopClear

\* stop() was the latest call to return and no call has begun since
StopReturned ==
    /\ ~InMusicCall
    /\ lastMusicCall # <<>>
    /\ lastMusicCall[1].op = "stop"

\* C31 (violated): once stop() has returned no player process is alive and
\* the playlist is empty, until a tool function is called again
C31_StopStaysStopped ==
    StopReturned => (players = {} /\ playlist = <<>> /\ ~music_playing)

\* C38 (violated): a skip_song call on a playlist that is not at its last
\* song, and whose song has a URL, returns with the cursor one beyond where
\* it was and with one player started since it began; and the cursor of a
\* playlist that is not empty is within the playlist
C38_SkipMovesByOne ==
    /\ (/\ lastMusicCall # <<>>
        /\ lastMusicCall[1].op = "skip_song"
        /\ lastMusicCall[1].ok) =>
            /\ lastMusicCall[1].index_after = lastMusicCall[1].index_before + 1
            /\ lastMusicCall[1].popens_after = lastMusicCall[1].popens_before + 1
    /\ playlist # <<>> => playlist_index \in 0..(Len(playlist) - 1)

(***************************************************************************)
(* VoiceAssistant (src/src/assistant.py): wakeword listening and the        *)
(* conversation life cycle                                                  *)
(*                                                                          *)
(* The main task, the three conversation tasks and the callbacks all run    *)
(* on one event loop: a step of one of them is what it does between two     *)
(* awaits.  While the loop is inside a call of the player that waits for    *)
(* the playback thread (pcControl # "idle") no other task runs.  Time is    *)
(* counted in seconds and passes while the watchdog sleeps.                 *)
(***************************************************************************)
ConversationTimeout == 30
TimeoutCheckInterval == 1

\* Bounds of the model
MaxConversations == 2
MaxAudioEvents == 1

AudioEventSizes == {960}

Tasks == {"send_task", "session_task", "timeout_task"}
TaskOrders ==
    {o \in [1..3 -> Tasks] : \A t \in Tasks : \E k \in 1..3 : o[k] = t}

NoTasks == [t \in Tasks |-> "none"]
Finished(state) == state \in {"done", "cancelled", "failed"}

\* task.cancel()
Cancel(state) == IF state = "running" THEN "cancelling" ELSE state

\* mutant: the cancelled task is not awaited
M_AwaitNothing(state) == TRUE

\* await task: returns or raises once the task has finished
AwaitReturns(state) == Finished(state)

EndConversationText == "Konversation wird beendet. Auf Wiedersehen!"

\* the two stop() calls of main(): by the signal handler's task and by the
\* finally clause
StopCalls == {"signal", "finally"}

\* the event loop is free to run a task
LoopFree == pcControl = "idle"

\* initialize(): the wakeword detector is created, without a callback, and
\* initialized; an error of the engine ends main() before run()
InitializeDetector ==
    /\ pcMain = "init"
    /\ \E ok \in BOOLEAN :
        /\ DetectorInitializeStep(ok)
        /\ pcMain' = IF ok THEN "ready" ELSE "failed"
    /\ UNCHANGED <<is_running, is_in_conversation, end_conversation_requested, elapsed,
                   task, pcWatchdog, sleepLeft, pendingTasks, teardownLog,
                   conversations, audioEvents, toolResult>>
    /\ UNCHANGED <<playerVars, handlerVars, clientVars, stopVars, auxVars>>

\* run(): self._is_running = True; _wakeword_loop starts the detector and
\* opens its input stream
RunAssistant ==
    /\ pcMain = "ready"
    /\ is_running' = TRUE
    /\ DetectorStartStep
    /\ wwStream' = "open"
    /\ pcMain' = "listening"
    /\ UNCHANGED <<is_in_conversation, end_conversation_requested, elapsed, task,
                   pcWatchdog, sleepLeft, pendingTasks, teardownLog,
                   conversations, audioEvents, toolResult>>
    /\ UNCHANGED <<playerVars, handlerVars, clientVars, detections, pcStop, stopAt, auxVars>>

\* while self._is_running and not self._is_in_conversation
WakewordLoopWhile(running, in_conv) == running /\ ~in_conv

\* mutant: every frame read starts a conversation
M_StartOnAnyFrame(r) == TRUE

\* if self._wakeword_detector.process_frame(audio_frame): a call that raises
\* goes to the except clause of the loop
StartsConversation(r) == r.ret /\ ~r.raised

\* process_frame on a frame of the wakeword stream, which delivers frames
\* of the engine's frame length
WakewordFrame(outcome) ==
    ProcessFrameEffect(porcupine, FrameLength, outcome, on_wakeword)

\* _wakeword_loop: a frame is read and process_frame returns True;
\* _start_conversation up to connect(): activation sound, flags and timestamps
WakewordDetected ==
    /\ pcMain = "listening"
    /\ LoopFree
    /\ WakewordLoopWhile(is_running, is_in_conversation)
    /\ conversations < MaxConversations
    /\ \E outcome \in EngineOutcomes :
        /\ StartsConversation(WakewordFrame(outcome))
        /\ ProcessFrameStep(FrameLength, outcome)
        /\ detections' = detections + (IF WakewordFrame(outcome).ret THEN 1 ELSE 0)
    /\ is_in_conversation' = TRUE
    /\ elapsed' = 0
    /\ conversations' = conversations + 1
    /\ teardownLog' = <<>>
    /\ audioEvents' = 0
    /\ toolResult' = "None"
    /\ task' = NoTasks
    /\ pcWatchdog' = "none"
    /\ sleepLeft' = 0
    /\ pendingTasks' = <<>>
    /\ pcMain' = "connect"
    /\ UNCHANGED <<is_running, end_conversation_requested>>
    /\ UNCHANGED <<playerVars, handlerVars, clientVars, wwStream, pcStop, stopAt, auxVars>>

\* _wakeword_loop: the read of the stream raises, or process_frame returns
\* False or raises: the loop sleeps and goes on
WakewordNoDetection ==
    /\ pcMain = "listening"
    /\ LoopFree
    /\ WakewordLoopWhile(is_running, is_in_conversation)
    /\ \E readOk \in BOOLEAN, outcome \in EngineOutcomes :
        IF readOk
        THEN /\ ~StartsConversation(WakewordFrame(outcome))
             /\ ProcessFrameStep(FrameLength, outcome)
             /\ detections' = detections + (IF WakewordFrame(outcome).ret THEN 1 ELSE 0)
        ELSE UNCHANGED <<detectorVars, detections>>
    /\ UNCHANGED <<pcMain, is_running, is_in_conversation, end_conversation_requested,
                   elapsed, task, pcWatchdog, sleepLeft, pendingTasks, teardownLog,
                   conversations, audioEvents, toolResult>>
    /\ UNCHANGED <<playerVars, handlerVars, clientVars, wwStream, pcStop, stopAt, auxVars>>

\* mutant: an exception skips the teardown
M_NoFinally(raised, next) == IF raised THEN "listening" ELSE next

\* _start_conversation: try / except Exception / finally: where the main
\* task goes after a step of the try block
AfterTry(raised, next) == IF raised THEN "end" ELSE next

\* await self._gemini_client.connect()
ConvConnect ==
    /\ pcMain = "connect"
    /\ LoopFree
    /\ \E reach \in BOOLEAN, setup \in SetupOutcomes :
        /\ ConnectStep(reach, setup)
        /\ pcMain' = AfterTry(ConnectRaises(is_connected, reach, setup), "start_streaming")
    /\ UNCHANGED <<is_running, is_in_conversation, end_conversation_requested, elapsed,
                   task, pcWatchdog, sleepLeft, pendingTasks, teardownLog,
                   conversations, audioEvents, toolResult>>
    /\ UNCHANGED <<playerVars, handlerVars, detectorVars, stopVars, auxVars>>

\* await self._audio_handler.start_streaming(): it raises when the
\* sounddevice stream cannot be opened
ConvStartStreaming ==
    /\ pcMain = "start_streaming"
    /\ StartStreamingStep
    /\ pcMain' = AfterTry(use_sounddevice /\ stream' = "None", "start_playback")
    /\ UNCHANGED <<is_running, is_in_conversation, end_conversation_requested, elapsed,
                   task, pcWatchdog, sleepLeft, pendingTasks, teardownLog,
                   conversations, audioEvents, toolResult>>
    /\ UNCHANGED <<playerVars, clientVars, detectorVars, stopVars, auxVars>>

\* await self._audio_player.start_playback_stream(): the reset under the lock
ConvStartPlaybackReset ==
    /\ pcMain = "start_playback"
    /\ StartPlaybackResetStep
    /\ pcMain' = "start_playback_run"
    /\ UNCHANGED <<is_running, is_in_conversation, end_conversation_requested, elapsed,
                   task, pcWatchdog, sleepLeft, pendingTasks, teardownLog,
                   conversations, audioEvents, toolResult>>
    /\ UNCHANGED <<handlerVars, clientVars, detectorVars, stopVars, auxVars>>

\* start_playback, flags and thread; then _conversation_loop creates the
\* three tasks and waits for the first to finish
ConvCreateTasks ==
    /\ pcMain = "start_playback_run"
    /\ StartPlaybackRunStep
    /\ task' = [t \in Tasks |-> "running"]
    /\ pcWatchdog' = "start"
    /\ pendingTasks' = <<>>
    /\ pcMain' = "wait"
    /\ UNCHANGED <<is_running, is_in_conversation, end_conversation_requested, elapsed,
                   sleepLeft, teardownLog, conversations, audioEvents,
                   toolResult>>
    /\ UNCHANGED <<handlerVars, clientVars, detectorVars, stopVars, auxVars>>

\* done, pending = await asyncio.wait(..., FIRST_COMPLETED) returns; the
\* first pending task is cancelled and awaited
ConvWaitReturns ==
    /\ pcMain = "wait"
    /\ LoopFree
    /\ \E t \in Tasks : Finished(task[t])
    /\ \E order \in TaskOrders :
        LET pend == SelectSeq(order, LAMBDA t : ~Finished(task[t]))
        IN  /\ pendingTasks' = pend
            /\ IF pend = <<>>
               THEN /\ pcMain' = "end"
                    /\ UNCHANGED task
               ELSE /\ pcMain' = "await"
                    /\ task' = [task EXCEPT ![Head(pend)] = Cancel(@)]
    /\ UNCHANGED <<is_running, is_in_conversation, end_conversation_requested, elapsed,
                   pcWatchdog, sleepLeft, teardownLog, conversations,
                   audioEvents, toolResult>>
    /\ UNCHANGED <<playerVars, handlerVars, clientVars, detectorVars, stopVars, auxVars>>

\* await task returns (CancelledError is passed over) and the next pending
\* task is cancelled and awaited; or await task raises the task's exception,
\* which except Exception logs, and _conversation_loop returns
ConvAwaitReturns ==
    /\ pcMain = "await"
    /\ LoopFree
    /\ AwaitReturns(task[Head(pendingTasks)])
    /\ IF task[Head(pendingTasks)] = "failed"
       THEN /\ pcMain' = "end"
            /\ pendingTasks' = <<>>
            /\ UNCHANGED task
       ELSE /\ pendingTasks' = Tail(pendingTasks)
            /\ IF Tail(pendingTasks) = <<>>
               THEN /\ pcMain' = "end"
                    /\ UNCHANGED task
               ELSE /\ pcMain' = "await"
                    /\ task' = [task EXCEPT ![pendingTasks[2]] = Cancel(@)]
    /\ UNCHANGED <<is_running, is_in_conversation, end_conversation_requested, elapsed,
                   pcWatchdog, sleepLeft, teardownLog, conversations,
                   audioEvents, toolResult>>
    /\ UNCHANGED <<playerVars, handlerVars, clientVars, detectorVars, stopVars, auxVars>>

\* _end_conversation: self._is_in_conversation = False;
\* await self._audio_handler.stop_streaming()
\* (the activity time is not read again before the next conversation sets it)
EndStopStreaming ==
    /\ pcMain = "end"
    /\ is_in_conversation' = FALSE
    /\ elapsed' = 0
    /\ StopStreamingStep
    /\ teardownLog' = Append(teardownLog, "capture")
    /\ pcMain' = "end_playback"
    /\ UNCHANGED <<is_running, end_conversation_requested, task, pcWatchdog,
                   sleepLeft, pendingTasks, conversations, audioEvents,
                   toolResult>>
    /\ UNCHANGED <<playerVars, clientVars, detectorVars, stopVars, auxVars>>

\* await self._audio_player.stop_playback_stream(): the flag
EndStopPlaybackFlag ==
    /\ pcMain = "end_playback"
    /\ StopPlaybackFlagStep
    /\ pcMain' = "end_join"
    /\ UNCHANGED <<is_running, is_in_conversation, end_conversation_requested, elapsed,
                   task, pcWatchdog, sleepLeft, pendingTasks, teardownLog,
                   conversations, audioEvents, toolResult>>
    /\ UNCHANGED <<handlerVars, clientVars, detectorVars, stopVars, auxVars>>

\* stop_playback: the join and the reset under the lock
EndStopPlaybackReset ==
    /\ pcMain = "end_join"
    /\ StopPlaybackResetStep
    /\ teardownLog' = Append(teardownLog, "playback")
    /\ pcMain' = "end_disconnect"
    /\ UNCHANGED <<is_running, is_in_conversation, end_conversation_requested, elapsed,
                   task, pcWatchdog, sleepLeft, pendingTasks, conversations,
                   audioEvents, toolResult>>
    /\ UNCHANGED <<handlerVars, clientVars, detectorVars, stopVars, auxVars>>

\* await self._gemini_client.disconnect(), up to the await of close()
EndDisconnectClose ==
    /\ pcMain = "end_disconnect"
    /\ DisconnectCloseStep
    /\ IF ws # NoWs
       THEN /\ pcMain' = "end_release"
            /\ UNCHANGED teardownLog
       ELSE /\ pcMain' = "end_chime"
            /\ teardownLog' = Append(teardownLog, "disconnect")
    /\ UNCHANGED <<is_running, is_in_conversation, end_conversation_requested, elapsed,
                   task, pcWatchdog, sleepLeft, pendingTasks, conversations,
                   audioEvents, toolResult>>
    /\ UNCHANGED <<playerVars, handlerVars, detectorVars, stopVars, auxVars>>

\* disconnect(), after the await of close()
EndDisconnectRelease ==
    /\ pcMain = "end_release"
    /\ LoopFree
    /\ DisconnectReleaseStep
    /\ teardownLog' = Append(teardownLog, "disconnect")
    /\ pcMain' = "end_chime"
    /\ UNCHANGED <<is_running, is_in_conversation, end_conversation_requested, elapsed,
                   task, pcWatchdog, sleepLeft, pendingTasks, conversations,
                   audioEvents, toolResult>>
    /\ UNCHANGED <<playerVars, handlerVars, detectorVars, stopVars, auxVars>>

\* self._audio_player.play_deactivation_sound(); _start_conversation
\* returns into the wakeword loop
EndChime ==
    /\ pcMain = "end_chime"
    /\ teardownLog' = Append(teardownLog, "chime")
    /\ pcMain' = "listening"
    /\ UNCHANGED <<is_running, is_in_conversation, end_conversation_requested, elapsed,
                   task, pcWatchdog, sleepLeft, pendingTasks, conversations,
                   audioEvents, toolResult>>
    /\ UNCHANGED <<playerVars, handlerVars, clientVars, detectorVars, stopVars, auxVars>>

\* a cancelled task is resumed with CancelledError, which none of the three
\* coroutines catches (they catch Exception)
TaskCancelled ==
    /\ LoopFree
    /\ \E t \in Tasks :
        /\ task[t] = "cancelling"
        /\ task' = [task EXCEPT ![t] = "cancelled"]
        /\ IF t = "timeout_task"
           THEN pcWatchdog' = "none" /\ sleepLeft' = 0
           ELSE UNCHANGED <<pcWatchdog, sleepLeft>>
    /\ UNCHANGED <<pcMain, is_running, is_in_conversation, end_conversation_requested,
                   elapsed, pendingTasks, teardownLog,
                   conversations, audioEvents, toolResult>>
    /\ UNCHANGED <<playerVars, handlerVars, clientVars, detectorVars, stopVars, auxVars>>

(***************************************************************************)
(* _send_audio_loop (send_task)                                             *)
(***************************************************************************)
\* one round of async for audio_chunk in get_audio_stream(): the loop ends
\* when recording has stopped; with a chunk, it breaks when the conversation
\* is over, send_audio returns at once when not connected, and an exception
\* of the send ends the loop (except Exception)
SendAudioEffect(recording, in_conv, connected, status) ==
    IF ~recording THEN "done"
    ELSE IF ~in_conv THEN "done"
    ELSE IF ~connected THEN "running"
    ELSE IF status # "sent" THEN "done"
    ELSE "running"

SendAudioLoop ==
    /\ LoopFree
    /\ task["send_task"] = "running"
    /\ \/ is_recording /\ use_sounddevice /\ stream = "open"
       \/ ~is_recording
    /\ LET state == SendAudioEffect(is_recording, is_in_conversation, is_connected,
                                    SendStatus(ws, openConns))
       IN  task' = [task EXCEPT !["send_task"] = state]
    /\ UNCHANGED <<pcMain, is_running, is_in_conversation, end_conversation_requested,
                   elapsed, pcWatchdog, sleepLeft, pendingTasks, teardownLog,
                   conversations, audioEvents, toolResult>>
    /\ UNCHANGED <<playerVars, handlerVars, clientVars, detectorVars, stopVars, auxVars>>

(***************************************************************************)
(* _conversation_timeout_loop (timeout_task)                                *)
(***************************************************************************)
\* while self._is_in_conversation: await asyncio.sleep(...): where the
\* task is after the loop condition
WatchdogWhile(in_conv) == IF in_conv THEN "sleep" ELSE "return"

\* the task starts: the loop condition and the first sleep
WatchdogStart ==
    /\ LoopFree
    /\ task["timeout_task"] = "running"
    /\ pcWatchdog = "start"
    /\ IF WatchdogWhile(is_in_conversation) = "sleep"
       THEN /\ pcWatchdog' = "sleep"
            /\ sleepLeft' = TimeoutCheckInterval
            /\ UNCHANGED task
       ELSE /\ pcWatchdog' = "none"
            /\ task' = [task EXCEPT !["timeout_task"] = "done"]
            /\ UNCHANGED sleepLeft
    /\ UNCHANGED <<pcMain, is_running, is_in_conversation, end_conversation_requested,
                   elapsed, pendingTasks, teardownLog, conversations,
                   audioEvents, toolResult>>
    /\ UNCHANGED <<playerVars, handlerVars, clientVars, detectorVars, stopVars, auxVars>>

\* mutant: the watchdog allows one more check interval
M_WatchdogLate(in_conv, requested, el) ==
    IF requested
    THEN [in_conv |-> FALSE, requested |-> FALSE, break |-> TRUE]
    ELSE IF el > ConversationTimeout + TimeoutCheckInterval
    THEN [in_conv |-> FALSE, requested |-> requested, break |-> TRUE]
    ELSE [in_conv |-> in_conv, requested |-> requested, break |-> FALSE]

\* the body of the loop after the sleep: the end request, then the timeout
WatchdogCheckEffect(in_conv, requested, el) ==
    IF requested
    THEN [in_conv |-> FALSE, requested |-> FALSE, break |-> TRUE]
    ELSE IF el > ConversationTimeout
    THEN [in_conv |-> FALSE, requested |-> requested, break |-> TRUE]
    ELSE [in_conv |-> in_conv, requested |-> requested, break |-> FALSE]

\* the sleep is over: the checks run, and the task ends or sleeps again
WatchdogCheck ==
    /\ LoopFree
    /\ task["timeout_task"] = "running"
    /\ pcWatchdog = "sleep"
    /\ sleepLeft = 0
    /\ LET r == WatchdogCheckEffect(is_in_conversation, end_conversation_requested, elapsed)
       IN  /\ is_in_conversation' = r.in_conv
           /\ end_conversation_requested' = r.requested
           /\ IF r.break \/ WatchdogWhile(r.in_conv) = "return"
              THEN /\ pcWatchdog' = "none"
                   /\ task' = [task EXCEPT !["timeout_task"] = "done"]
                   /\ UNCHANGED sleepLeft
              ELSE /\ pcWatchdog' = "sleep"
                   /\ sleepLeft' = TimeoutCheckInterval
                   /\ UNCHANGED task
    /\ UNCHANGED <<pcMain, is_running, elapsed, pendingTasks, teardownLog,
                   conversations, audioEvents, toolResult>>
    /\ UNCHANGED <<playerVars, handlerVars, clientVars, detectorVars, stopVars, auxVars>>

\* one second passes while the watchdog sleeps
Tick ==
    /\ LoopFree
    /\ task["timeout_task"] = "running"
    /\ pcWatchdog = "sleep"
    /\ sleepLeft > 0
    /\ elapsed <= ConversationTimeout + TimeoutCheckInterval
    /\ sleepLeft' = sleepLeft - 1
    /\ elapsed' = elapsed + 1
    /\ UNCHANGED <<pcMain, is_running, is_in_conversation, end_conversation_requested,
                   task, pcWatchdog, pendingTasks, teardownLog, conversations,
                   audioEvents, toolResult>>
    /\ UNCHANGED <<playerVars, handlerVars, clientVars, detectorVars, stopVars, auxVars>>

(***************************************************************************)
(* session_task: GeminiLiveClient.run_session(), which receives the         *)
(* backend's events (receive_responses, _process_response) and calls the    *)
(* callbacks and tool handlers of the assistant                             *)
(***************************************************************************)
\* run_session's receive loop is running on an open connection
RunSessionReceiving ==
    /\ LoopFree
    /\ task["session_task"] = "running"
    /\ ws \in openConns

\* run_session returns when the connection has been closed
RunSessionReturns ==
    /\ LoopFree
    /\ task["session_task"] = "running"
    /\ ws \notin openConns
    /\ task' = [task EXCEPT !["session_task"] = "done"]
    /\ UNCHANGED <<pcMain, is_running, is_in_conversation, end_conversation_requested,
                   elapsed, pcWatchdog, sleepLeft, pendingTasks, teardownLog,
                   conversations, audioEvents, toolResult>>
    /\ UNCHANGED <<playerVars, handlerVars, clientVars, detectorVars, stopVars, auxVars>>

\* run_session ends with an exception when one of its loops fails
RunSessionFails ==
    /\ LoopFree
    /\ task["session_task"] = "running"
    /\ task' = [task EXCEPT !["session_task"] = "failed"]
    /\ UNCHANGED <<pcMain, is_running, is_in_conversation, end_conversation_requested,
                   elapsed, pcWatchdog, sleepLeft, pendingTasks, teardownLog,
                   conversations, audioEvents, toolResult>>
    /\ UNCHANGED <<playerVars, handlerVars, clientVars, detectorVars, stopVars, auxVars>>

\* _on_gemini_audio: self._audio_player.queue_audio(audio_data), up to the
\* lock; when playback is not active queue_audio returns at once and the
\* activity time is updated
OnGeminiAudioQueue ==
    /\ RunSessionReceiving
    /\ audioEvents < MaxAudioEvents
    /\ audioEvents' = audioEvents + 1
    /\ \E n \in AudioEventSizes : QueueAudioCheckStep(n)
    /\ elapsed' = IF is_playing THEN elapsed ELSE 0
    /\ UNCHANGED <<pcMain, is_running, is_in_conversation, end_conversation_requested,
                   task, pcWatchdog, sleepLeft, pendingTasks, teardownLog,
                   conversations, toolResult>>
    /\ UNCHANGED <<handlerVars, clientVars, detectorVars, stopVars, auxVars>>

\* _on_gemini_audio: the append under the lock, then
\* self._last_activity_time = datetime.now()
OnGeminiAudioAppend ==
    /\ pcControl = "queue_append"
    /\ QueueAudioAppendStep
    /\ elapsed' = 0
    /\ UNCHANGED <<pcMain, is_running, is_in_conversation, end_conversation_requested,
                   task, pcWatchdog, sleepLeft, pendingTasks, teardownLog,
                   conversations, audioEvents, toolResult>>
    /\ UNCHANGED <<handlerVars, clientVars, detectorVars, stopVars, auxVars>>

\* _on_gemini_text
OnGeminiText ==
    /\ RunSessionReceiving
    /\ elapsed' = 0
    /\ UNCHANGED <<pcMain, is_running, is_in_conversation, end_conversation_requested,
                   task, pcWatchdog, sleepLeft, pendingTasks, teardownLog,
                   conversations, audioEvents, toolResult>>
    /\ UNCHANGED <<playerVars, handlerVars, clientVars, detectorVars, stopVars, auxVars>>

\* _on_turn_complete
OnTurnComplete ==
    /\ RunSessionReceiving
    /\ elapsed' = 0
    /\ UNCHANGED <<pcMain, is_running, is_in_conversation, end_conversation_requested,
                   task, pcWatchdog, sleepLeft, pendingTasks, teardownLog,
                   conversations, audioEvents, toolResult>>
    /\ UNCHANGED <<playerVars, handlerVars, clientVars, detectorVars, stopVars, auxVars>>

\* mutant: the handler ends the conversation itself
M_HandlerEndsConversation(in_conv, requested) ==
    [in_conv |-> FALSE, requested |-> TRUE, result |-> EndConversationText]

\* _handle_end_conversation()
HandleEndConversationEffect(in_conv, requested) ==
    [in_conv |-> in_conv, requested |-> TRUE, result |-> EndConversationText]

\* a toolCall event for end_conversation: _handle_tool_call calls the handler
HandleEndConversation ==
    /\ RunSessionReceiving
    /\ LET r == HandleEndConversationEffect(is_in_conversation, end_conversation_requested)
       IN  /\ is_in_conversation' = r.in_conv
           /\ end_conversation_requested' = r.requested
           /\ toolResult' = r.result
    /\ UNCHANGED <<pcMain, is_running, elapsed, task, pcWatchdog, sleepLeft,
                   pendingTasks, teardownLog, conversations, audioEvents>>
    /\ UNCHANGED <<playerVars, handlerVars, clientVars, detectorVars, stopVars, auxVars>>

(***************************************************************************)
(* Claims about the conversation life cycle                                 *)
(***************************************************************************)
\* the watchdog's sleep is over and its checks are about to run
WatchdogDue ==
    /\ task["timeout_task"] = "running"
    /\ pcWatchdog = "sleep"
    /\ sleepLeft = 0

\* the positions of the main task after _conversation_loop has returned
AfterConversationLoop ==
    {"end", "end_playback", "end_join", "end_disconnect", "end_release", "end_chime",
     "listening"}

TeardownOrder == <<"capture", "playback", "disconnect", "chime">>

\* C6: while the watchdog runs, the time since the last activity never
\* exceeds the timeout by more than one check interval; a check that finds
\* it above the timeout ends the conversation and the watchdog; and from a
\* check that is due with the timeout exceeded the orchestrator gets back to
\* wakeword listening (unless activity arrives before the check), with no
\* further input.
C6_TimeoutEndsConversation ==
    /\ [](task["timeout_task"] = "running"
            => elapsed <= ConversationTimeout + TimeoutCheckInterval)
    /\ [][ (WatchdogDue /\ elapsed > ConversationTimeout
                /\ (pcWatchdog' = "none" \/ sleepLeft' # sleepLeft))
            => (~is_in_conversation' /\ task'["timeout_task"] = "done") ]_vars
    /\ ((WatchdogDue /\ elapsed > ConversationTimeout)
            ~> (pcMain = "listening"
                    \/ (is_in_conversation /\ elapsed <= ConversationTimeout)))

\* the watchdog has ended the conversation after 31 seconds without activity
C6_Witness ==
    /\ pcMain = "wait"
    /\ task["timeout_task"] = "done"
    /\ elapsed = ConversationTimeout + TimeoutCheckInterval
    /\ ~is_in_conversation
    /\ ~end_conversation_requested
    /\ toolResult = "None"

\* C7: once _conversation_loop has returned (teardown, wakeword listening)
\* none of the three conversation tasks is running or about to be cancelled:
\* each has finished by itself or has been cancelled and awaited; the task
\* being awaited has been cancelled or has finished.
C7_NoTaskSurvives ==
    /\ pcMain \in AfterConversationLoop =>
          \A t \in Tasks : task[t] = "none" \/ Finished(task[t])
    /\ pcMain = "await" =>
          /\ pendingTasks # <<>>
          /\ task[Head(pendingTasks)] # "running"
          /\ \E t \in Tasks : Finished(task[t])

\* the watchdog finished first, the two others were cancelled, and the
\* orchestrator is listening again
C7_Witness ==
    /\ pcMain = "listening"
    /\ task["timeout_task"] = "done"
    /\ task["send_task"] = "cancelled"
    /\ task["session_task"] = "cancelled"

\* C8: the teardown steps are done in the order capture, playback,
\* disconnect, chime; whenever the orchestrator is back in wakeword
\* listening after a conversation attempt, all four have been done, no
\* conversation is active, capture and playback are stopped and no
\* connection is held or open.
C8_TeardownInOrder ==
    /\ teardownLog = SubSeq(TeardownOrder, 1, Len(teardownLog))
    /\ (pcMain = "listening" /\ conversations > 0) =>
          /\ teardownLog = TeardownOrder
          /\ ~is_in_conversation
          /\ ~is_recording /\ audio_queue = None
          /\ ~is_playing
          /\ ~is_connected /\ ws = NoWs /\ openConns = {}

\* listening again after an attempt whose connect() failed before any
\* connection was opened
C8_Witness ==
    /\ pcMain = "listening"
    /\ conversations = 1
    /\ connCount = 0
    /\ teardownLog = TeardownOrder

\* C9: at most one backend connection is open; a conversation starts, and a
\* connection is opened, only when no conversation is active and no
\* connection is open or held.
C9_OneSession ==
    /\ [](Cardinality(openConns) <= 1)
    /\ [][ conversations' # conversations
            => (~is_in_conversation /\ openConns = {} /\ ws = NoWs
                    /\ \A t \in Tasks : task[t] = "none" \/ Finished(task[t])) ]_vars
    /\ [][ connCount' # connCount => (openConns = {} /\ ws = NoWs) ]_vars

\* the second conversation holds the second connection, the only open one
C9_Witness ==
    /\ conversations = 2
    /\ ws = 2
    /\ openConns = {2}
    /\ pcMain = "wait"

\* C10: the end_conversation handler sets the request and returns its text,
\* leaving the conversation flag, the tasks and the main task as they are;
\* a watchdog check that finds the request ends the conversation, clears
\* the request and ends the watchdog.
C10_EndRequestViaWatchdog ==
    /\ [][ (end_conversation_requested' /\ ~end_conversation_requested)
            => ( /\ toolResult' = EndConversationText
                 /\ is_in_conversation' = is_in_conversation
                 /\ task' = task
                 /\ pcMain' = pcMain
                 /\ pendingTasks' = pendingTasks ) ]_vars
    /\ [][ (WatchdogDue /\ end_conversation_requested
                /\ (pcWatchdog' = "none" \/ sleepLeft' # sleepLeft))
            => ( /\ ~is_in_conversation'
                 /\ ~end_conversation_requested'
                 /\ task'["timeout_task"] = "done" ) ]_vars
    /\ [][ (is_in_conversation /\ ~is_in_conversation' /\ pcMain = "wait")
            => task'["timeout_task"] = "done" ]_vars

\* the request was made and the watchdog has observed and cleared it before
\* the timeout
C10_Witness ==
    /\ pcMain = "wait"
    /\ toolResult = EndConversationText
    /\ ~end_conversation_requested
    /\ ~is_in_conversation
    /\ task["timeout_task"] = "done"
    /\ elapsed <= ConversationTimeout

\* C36 (violated): when a conversation starts (_start_conversation has set
\* its flags and is about to connect) the end-conversation request is not
\* set
C36_NoRequestAtStart ==
    pcMain = "connect" => ~end_conversation_requested

\* C11: a conversation starts only from wakeword listening and only on a
\* process_frame call, on a frame of the engine's length, that returned
\* True; each such call starts exactly one conversation, so the number of
\* conversations equals the number of detections, and the conversation flag
\* rises only together with a new conversation
C11_DetectionStartsConversation ==
    /\ [](conversations = detections)
    /\ [][ conversations' # conversations
            => /\ pcMain = "listening" /\ pcMain' = "connect"
               /\ ~is_in_conversation /\ is_in_conversation'
               /\ conversations' = conversations + 1
               /\ lastProcess' # NoProcess
               /\ lastProcess'.ret /\ ~lastProcess'.raised /\ lastProcess'.engine
               /\ lastProcess'.len = FrameLength ]_vars
    /\ [][ (is_in_conversation' /\ ~is_in_conversation)
            => conversations' = conversations + 1 ]_vars
    /\ [][ (pcMain = "listening" /\ lastProcess' # lastProcess /\ ~lastProcess'.ret)
            => (pcMain' = "listening" /\ conversations' = conversations
                /\ is_in_conversation' = is_in_conversation) ]_vars

\* back in wakeword listening after one conversation, a further frame
\* without the keyword was processed and no second conversation began
C11_Witness ==
    /\ pcMain = "listening"
    /\ conversations = 1
    /\ detections = 1
    /\ ~is_in_conversation
    /\ lastProcess # NoProcess
    /\ lastProcess.engine
    /\ ~lastProcess.ret
    /\ teardownLog = TeardownOrder

\* the positions at which the main task is suspended in an await, so that
\* the task created by the signal handler can run
MainYields == {"listening", "connect", "wait", "await", "end_release"}

\* AudioHandler.cleanup(): the recording flag, the stream; the queue stays
HandlerCleanupStep ==
    /\ is_recording' = FALSE
    /\ stream' = "None"
    /\ UNCHANGED <<use_sounddevice, audio_queue, is_muted, queue_full_count, pcPyaudio,
                   pcStream, framesCaptured, delivered, lastFrame, streamSessions,
                   muteCalls, lastMuteCall>>

\* the seconds of a conversation at which the signal is let arrive: at its
\* start, after a second, and around the timeout
StopSignalTimes ==
    {0, TimeoutCheckInterval, ConversationTimeout, ConversationTimeout + TimeoutCheckInterval}

\* mutant: stop() ends the conversation but leaves the run flag set
M_StopKeepsRunning(running, in_conv) ==
    [is_running |-> running, is_in_conversation |-> FALSE]

\* stop(): self._is_running = False; self._is_in_conversation = False
StopEffect(running, in_conv) ==
    [is_running |-> FALSE, is_in_conversation |-> FALSE]

\* stop(), up to its first await: the flags, the detector's cleanup, then
\* either disconnect() up to the await of close(), or, with no connection,
\* the handler's cleanup and the player's stop_playback up to the join
StopCallStep(who) ==
    /\ pcStop[who] = "none"
    /\ LoopFree
    /\ LET r == StopEffect(is_running, is_in_conversation)
       IN  /\ is_running' = r.is_running
           /\ is_in_conversation' = r.is_in_conversation
    /\ DetectorCleanupStep
    /\ IF is_connected
       THEN /\ is_streaming' = FALSE
            /\ is_connected' = FALSE
            /\ openConns' = CloseConnection(openConns, ws)
            /\ IF ws # NoWs
               THEN /\ pcStop' = [pcStop EXCEPT ![who] = "closing"]
                    /\ UNCHANGED <<playerVars, handlerVars>>
               ELSE /\ pcStop' = [pcStop EXCEPT ![who] = "join"]
                    /\ HandlerCleanupStep
                    /\ StopPlaybackFlagStep
       ELSE /\ pcStop' = [pcStop EXCEPT ![who] = "join"]
            /\ HandlerCleanupStep
            /\ StopPlaybackFlagStep
            /\ UNCHANGED <<is_streaming, is_connected, openConns>>
    /\ UNCHANGED <<ws, tools, tool_handlers, connCount, pcRecv, curCalls, callIdx,
                   pending, outbox, callLog, callCount, pcDisconnect>>
    /\ UNCHANGED <<pcMain, end_conversation_requested, elapsed, task, pcWatchdog,
                   sleepLeft, pendingTasks, teardownLog, conversations, audioEvents,
                   toolResult, detections, wwStream>>
    /\ UNCHANGED auxVars

\* main(): the signal handler creates a task that runs stop(); it runs
\* while the main task is suspended
StopSignal ==
    /\ pcMain \in MainYields
    /\ elapsed \in StopSignalTimes
    /\ stopAt' = pcMain
    /\ StopCallStep("signal")

\* main(): finally: await assistant.stop(), after run() returned or
\* initialize() raised
StopFinally ==
    /\ pcMain \in {"stopped", "failed"}
    /\ UNCHANGED stopAt
    /\ StopCallStep("finally")

\* stop(), after the await of close(): self._ws = None, then the handler's
\* cleanup and the player's stop_playback up to the join
StopRelease ==
    /\ LoopFree
    /\ \E who \in StopCalls :
        /\ pcStop[who] = "closing"
        /\ pcStop' = [pcStop EXCEPT ![who] = "join"]
    /\ ws' = NoWs
    /\ HandlerCleanupStep
    /\ StopPlaybackFlagStep
    /\ UNCHANGED <<is_connected, is_streaming, tools, tool_handlers, openConns,
                   connCount, pcRecv, curCalls, callIdx, pending, outbox, callLog,
                   callCount, pcDisconnect>>
    /\ UNCHANGED <<pcMain, is_running, is_in_conversation, end_conversation_requested,
                   elapsed, task, pcWatchdog, sleepLeft, pendingTasks, teardownLog,
                   conversations, audioEvents, toolResult, detections, wwStream, stopAt>>
    /\ UNCHANGED <<detectorVars, auxVars>>

\* stop(): stop_playback after the join of the playback thread
StopFinish ==
    /\ \E who \in StopCalls :
        /\ pcStop[who] = "join"
        /\ pcStop' = [pcStop EXCEPT ![who] = "done"]
    /\ StopPlaybackResetStep
    /\ UNCHANGED <<pcMain, is_running, is_in_conversation, end_conversation_requested,
                   elapsed, task, pcWatchdog, sleepLeft, pendingTasks, teardownLog,
                   conversations, audioEvents, toolResult, detections, wwStream, stopAt>>
    /\ UNCHANGED <<handlerVars, clientVars, detectorVars, auxVars>>

\* _wakeword_loop: the while condition is false: finally closes the stream;
\* run(): while self._is_running: the loop is entered again or run() returns
WakewordLoopExit ==
    /\ pcMain = "listening"
    /\ LoopFree
    /\ ~WakewordLoopWhile(is_running, is_in_conversation)
    /\ IF is_running
       THEN /\ DetectorStartStep
            /\ wwStream' = "open"
            /\ pcMain' = "listening"
       ELSE /\ wwStream' = "None"
            /\ pcMain' = "stopped"
            /\ UNCHANGED detectorVars
    /\ UNCHANGED <<is_running, is_in_conversation, end_conversation_requested, elapsed,
                   task, pcWatchdog, sleepLeft, pendingTasks, teardownLog,
                   conversations, audioEvents, toolResult, detections, pcStop, stopAt>>
    /\ UNCHANGED <<playerVars, handlerVars, clientVars, auxVars>>

\* run() has returned and no stop() call is under way
Stopped ==
    /\ pcMain = "stopped"
    /\ \A who \in StopCalls : pcStop[who] \in {"none", "done"}

\* no conversation, no task, and the detector, the capture, the playback and
\* the connection are released
Released ==
    /\ ~is_running
    /\ ~is_in_conversation
    /\ \A t \in Tasks : task[t] = "none" \/ Finished(task[t])
    /\ porcupine = NoEngine
    /\ ~detector_running
    /\ wwStream = "None"
    /\ ~is_recording
    /\ stream = "None"
    /\ ~is_playing
    /\ pcPlayback \in {"none", "done"}
    /\ pcControl = "idle"
    /\ ~is_connected
    /\ ~is_streaming
    /\ ws = NoWs
    /\ openConns = {}

\* C12: once stop() has been called while the assistant listens for the
\* wakeword or is in a conversation, the orchestrator eventually is stopped:
\* run() has returned, no conversation is active and the detector, the
\* capture, the playback and the connection are released; it stays released
\* through the second stop() call, which deletes no engine a second time
C12_StopReachesStopped ==
    /\ [](Stopped => Released)
    /\ [](\A e \in 1..MaxEngines : Count(deletedLog, e) <= 1)
    /\ [](~usedAfterDelete)
    /\ [][ (pcStop["finally"] = "none" /\ pcStop'["finally"] # "none" /\ stopAt # "none")
            => (~is_running /\ ~is_in_conversation /\ porcupine = NoEngine
                /\ deletedLog' = deletedLog) ]_vars
    /\ [][ pcMain = "stopped" => pcMain' = "stopped" ]_vars
    /\ ((pcStop["signal"] # "none") ~> Stopped)

\* stop() was called during the conversation loop, and both this call and
\* the one of main()'s finally clause have finished after run() returned
C12_Witness ==
    /\ Stopped
    /\ Released
    /\ stopAt = "wait"
    /\ pcStop = [who \in StopCalls |-> "done"]
    /\ conversations = 1
    /\ teardownLog = TeardownOrder
    /\ cleanupCalls = 2
    /\ deletedLog = <<1>>

InitAssistant ==
    /\ pcMain = "init"
    /\ is_running = FALSE
    /\ is_in_conversation = FALSE
    /\ end_conversation_requested = FALSE
    /\ elapsed = 0
    /\ task = NoTasks
    /\ pcWatchdog = "none"
    /\ sleepLeft = 0
    /\ pendingTasks = <<>>
    /\ teardownLog = <<>>
    /\ conversations = 0
    /\ audioEvents = 0
    /\ toolResult = "None"
    /\ detections = 0
    /\ wwStream = "None"
    /\ pcStop = [who \in StopCalls |-> "none"]
    /\ stopAt = "none"

\* the steps of the main task
MainTask ==
    \/ InitializeDetector
    \/ RunAssistant
    \/ WakewordDetected
    \/ WakewordNoDetection
    \/ ConvConnect
    \/ ConvStartStreaming
    \/ ConvStartPlaybackReset
    \/ ConvCreateTasks
    \/ ConvWaitReturns
    \/ ConvAwaitReturns
    \/ EndStopStreaming
    \/ EndStopPlaybackFlag
    \/ EndStopPlaybackReset
    \/ EndDisconnectClose
    \/ EndDisconnectRelease
    \/ EndChime

\* the steps of the main task between the wakeword and the return to
\* wakeword listening
ConversationSteps ==
    \/ ConvConnect
    \/ ConvStartStreaming
    \/ ConvStartPlaybackReset
    \/ ConvCreateTasks
    \/ ConvWaitReturns
    \/ ConvAwaitReturns
    \/ EndStopStreaming
    \/ EndStopPlaybackFlag
    \/ EndStopPlaybackReset
    \/ EndDisconnectClose
    \/ EndDisconnectRelease
    \/ EndChime

NextAssistant ==
    \/ MainTask
    \/ TaskCancelled
    \/ SendAudioLoop
    \/ WatchdogStart
    \/ WatchdogCheck
    \/ Tick
    \/ RunSessionReturns
    \/ RunSessionFails
    \/ OnGeminiAudioQueue
    \/ OnGeminiAudioAppend
    \/ OnGeminiText
    \/ OnTurnComplete
    \/ HandleEndConversation
    \/ PeerCloses
    \/ PlaybackLoopCheck
    \/ PlaybackGetSamples

(***************************************************************************)
(* Initial state (after construction of every component) and the            *)
(* specifications                                                           *)
(***************************************************************************)
Init ==
    /\ InitPlayer
    /\ InitHandler
    /\ InitClient
    /\ InitDetector
    /\ InitAssistant
    /\ InitSession
    /\ InitRoundTrip
    /\ InitInitialize
    /\ InitTimer
    /\ InitSendLoop
    /\ InitMusic

\* the assistant constructs its detector without a callback
InitNoCallback == Init /\ ~on_wakeword

InitSounddevice == InitNoCallback /\ use_sounddevice

SpecPlayer == InitSounddevice /\ [][NextPlayer]_vars

SpecPlayerJoinTimeout == InitSounddevice /\ [][NextPlayerJoinTimeout]_vars

SpecHandler == InitNoCallback /\ [][NextHandler]_vars

SpecSendLoop == InitNoCallback /\ [][NextSendLoop]_vars

\* the event loop resumes the consumer when its wait on the queue times out
SpecHandlerFair ==
    /\ InitNoCallback
    /\ [][NextHandler]_vars
    /\ WF_vars(GetAudioStreamLoop)
    /\ WF_vars(GetAudioStreamTimeout)

SpecClient == InitSounddevice /\ [][NextClient]_vars

\* a detector constructed with or without a callback
InitAnyCallback == Init /\ use_sounddevice

SpecDetector == InitAnyCallback /\ [][NextDetector]_vars

SpecSession == InitSounddevice /\ [][NextSession]_vars

SpecRoundTrip == InitSounddevice /\ [][NextRoundTrip]_vars

\* the countdown threads keep running
SpecTimer ==
    /\ InitSounddevice
    /\ [][NextTimer]_vars
    /\ WF_vars(\E tid \in 1..MaxTimers : TimerThreadPoll(tid))

SpecTimerRace == InitSounddevice /\ [][NextTimerRace]_vars

SpecMusic == InitSounddevice /\ [][NextMusic]_vars

\* the countdown threads keep running and a sleep comes to its end
SpecTimerLock ==
    /\ InitSounddevice
    /\ [][NextTimerLock]_vars
    /\ WF_vars(\E tid \in 1..MaxTimers : lockHolder = 0 /\ TimerThreadPoll(tid))
    /\ WF_vars(\E tid \in 1..MaxTimers : TimerThreadPausedContinue(tid))

\* initialize() is one call that runs to its end
SpecInitialize ==
    /\ InitSounddevice
    /\ [][NextInitialize]_vars
    /\ WF_vars(NextInitialize)

SpecAssistant == InitNoCallback /\ [][NextAssistant]_vars

\* Bound of the fair specification
MaxFairConversations == 1

WakewordDetectedFair ==
    /\ conversations < MaxFairConversations
    /\ WakewordDetected

InConversation ==
    /\ NextAssistant
    /\ conversations' = conversations

NextAssistantFair ==
    \/ WakewordDetectedFair
    \/ InConversation

\* the event loop runs every task that is ready, timers fire when they are
\* due, and the playback thread is scheduled
SpecAssistantFair ==
    /\ InitNoCallback
    /\ [][NextAssistantFair]_vars
    /\ WF_vars(ConversationSteps)
    /\ WF_vars(TaskCancelled)
    /\ WF_vars(WatchdogStart)
    /\ WF_vars(WatchdogCheck)
    /\ WF_vars(OnGeminiAudioAppend)
    /\ WF_vars(PlaybackLoopCheck)
    /\ WF_vars(PlaybackGetSamples)

\* the orchestrator with the two stop() calls of main()
NextShutdown ==
    \/ NextAssistantFair
    \/ WakewordLoopExit
    \/ StopSignal
    \/ StopFinally
    \/ StopRelease
    \/ StopFinish

\* the event loop resumes a task that can run, the playback thread runs and
\* time passes
SpecShutdownFair ==
    /\ InitNoCallback
    /\ [][NextShutdown]_vars
    /\ WF_vars(ConversationSteps)
    /\ WF_vars(WakewordLoopExit)
    /\ WF_vars(TaskCancelled)
    /\ WF_vars(WatchdogStart)
    /\ WF_vars(WatchdogCheck)
    /\ WF_vars(Tick)
    /\ WF_vars(OnGeminiAudioAppend)
    /\ WF_vars(PlaybackLoopCheck)
    /\ WF_vars(PlaybackGetSamples)
    /\ WF_vars(StopRelease)
    /\ WF_vars(StopFinish)
====
